---------------------------- MODULE Spec2Model ----------------------------
(***************************************************************************)
(* Credit-card statement parser: the issuer classifier (detect_issuer of   *)
(* backend/main.py and of streamlit_app.py) and the field extractor        *)
(* (CreditCardParser of backend/parsers.py).                               *)
(*                                                                         *)
(* A statement text is a string.  The classifier's `in` tests are          *)
(* character-level substring tests on the lower-cased text; the            *)
(* extractor's rules are regular expressions run by re.search.             *)
(*                                                                         *)
(* Around this core, the entry points that take an uploaded PDF            *)
(* (parse_statement, parse_batch and debug_pdf_info of backend/main.py,    *)
(* parse_pdf of streamlit_app.py); what pdfplumber makes of the uploaded   *)
(* bytes is part of the upload.                                            *)
(***************************************************************************)
EXTENDS Integers, Sequences, FiniteSets, TLC

VARIABLES
    text,       \* the decoded statement text handed to the core
    issuer,     \* result of backend detect_issuer(text), or NotRun
    pass,       \* which pass of backend detect_issuer returned (1, 2; 0 = fell through)
    st_issuer,  \* result of the Streamlit copy of detect_issuer(text), or NotRun
    pc,         \* position inside CreditCardParser's extraction sequence
    card,       \* result of extract_last_four_digits, or NotRun
    cycle,      \* result of extract_billing_cycle, or NotRun
    due,        \* result of extract_payment_due_date, or NotRun
    balance,    \* result of extract_total_balance, or NotRun
    txn,        \* result of extract_transaction_info, or NotRun
    upload,     \* the uploaded file, the password, and what pdfplumber makes of them
    response,   \* what each entry point returned for the upload, or NoResponse
    files,      \* parse_batch: the uploaded files not processed yet
    results,    \* parse_batch: results
    errors,     \* parse_batch: errors
    parses,     \* the parses in progress side by side, each with its locals
    pdf_doc,    \* parse_statement: whether the document was opened, and its close() calls
    calls       \* the calls of the core made so far: operation, text and result

entry_vars == <<upload, response, files, results, errors, parses, pdf_doc, calls>>

vars == <<text, issuer, pass, st_issuer, pc, card, cycle, due, balance, txn,
          upload, response, files, results, errors, parses, pdf_doc, calls>>

\* Marks a result variable whose operation has not been applied yet.
NotRun == "<not run>"
NotRunCycle == [start_date |-> NotRun, end_date |-> NotRun]
NotRunTxn   == [transaction_count |-> NotRun, total_charges |-> NotRun]

\* No upload is being handled.
NoUpload == "<no upload>"
NoResponse == "<no response>"

\* pdf_doc = None: no document was opened.
NoDocument == [opened |-> FALSE, closes |-> 0]

NoEntryPoint ==
    /\ pdf_doc = NoDocument
    /\ calls = <<>>
    /\ upload = NoUpload
    /\ response = NoResponse
    /\ files = <<>>
    /\ results = <<>>
    /\ errors = <<>>
    /\ parses = <<>>

-----------------------------------------------------------------------------
(* Strings *)

Char(s, i) == SubSeq(s, i, i)

UpperCase == {"A","B","C","D","E","F","G","H","I","J","K","L","M",
              "N","O","P","Q","R","S","T","U","V","W","X","Y","Z"}

LowerOf == [c \in UpperCase |->
    CASE c = "A" -> "a" [] c = "B" -> "b" [] c = "C" -> "c" [] c = "D" -> "d"
      [] c = "E" -> "e" [] c = "F" -> "f" [] c = "G" -> "g" [] c = "H" -> "h"
      [] c = "I" -> "i" [] c = "J" -> "j" [] c = "K" -> "k" [] c = "L" -> "l"
      [] c = "M" -> "m" [] c = "N" -> "n" [] c = "O" -> "o" [] c = "P" -> "p"
      [] c = "Q" -> "q" [] c = "R" -> "r" [] c = "S" -> "s" [] c = "T" -> "t"
      [] c = "U" -> "u" [] c = "V" -> "v" [] c = "W" -> "w" [] c = "X" -> "x"
      [] c = "Y" -> "y" [] c = "Z" -> "z"]

LowerChar(c) == IF c \in UpperCase THEN LowerOf[c] ELSE c

\* The characters lo..hi of s in lower case.
RECURSIVE LowerRange(_, _, _)
LowerRange(s, lo, hi) ==
    IF lo > hi THEN ""
    ELSE IF lo = hi THEN LowerChar(Char(s, lo))
    ELSE LET mid == (lo + hi) \div 2
         IN  LowerRange(s, lo, mid) \o LowerRange(s, mid + 1, hi)

\* str.lower()
Lower(s) == LowerRange(s, 1, Len(s))

\* Python's `p in s` on strings: p occurs in s as a contiguous substring.
Contains(s, p) ==
    \E i \in 1..(Len(s) - Len(p) + 1) : SubSeq(s, i, i + Len(p) - 1) = p

-----------------------------------------------------------------------------
(* Issuer classifier *)

\* The issuers in the order in which both passes test them.
IssuerOrder == <<"dcb", "hdfc", "icici", "sbi", "axis", "kotak",
                 "yes bank", "indusind", "onecard">>

NoMatch == "<no match>"

\* Pass1Pred with the issuer phrases written without their inner space.
Pass1Pred_joined(tag, tl) ==
    CASE tag = "dcb"      -> Contains(tl, "developmentcreditbank") \/ Contains(tl, "dcbbank")
      [] tag = "hdfc"     -> Contains(tl, "hdfcbank")
      [] tag = "icici"    -> Contains(tl, "icicibank")
      [] tag = "sbi"      -> Contains(tl, "statebankofindia")
      [] tag = "axis"     -> Contains(tl, "axisbank")
      [] tag = "kotak"    -> Contains(tl, "kotakmahindrabank")
      [] tag = "yes bank" -> Contains(tl, "yesbank")
      [] tag = "indusind" -> Contains(tl, "indusindbank")
      [] tag = "onecard"  -> Contains(tl, "onecard")

\* Pass1Pred asking for the full name of every issuer.
Pass1Pred_fullnames(tag, tl) ==
    CASE tag = "dcb"      -> Contains(tl, "development credit bank") \/ Contains(tl, "dcb bank")
      [] tag = "hdfc"     -> Contains(tl, "hdfc bank")
      [] tag = "icici"    -> Contains(tl, "icici bank")
      [] tag = "sbi"      -> Contains(tl, "state bank of india")
      [] tag = "axis"     -> Contains(tl, "axis bank")
      [] tag = "kotak"    -> Contains(tl, "kotak mahindra bank")
      [] tag = "yes bank" -> Contains(tl, "yes bank")
      [] tag = "indusind" -> Contains(tl, "indusind bank")
      [] tag = "onecard"  -> Contains(tl, "onecard")

\* The conditions of the first if/elif chain, on the lower-cased text.
Pass1Pred(tag, tl) ==
    CASE tag = "dcb" ->
            Contains(tl, "development credit bank")
            \/ (Contains(tl, "dcb bank") /\ Contains(tl, "dcb"))
      [] tag = "hdfc" ->
            Contains(tl, "hdfc bank")
            \/ (Contains(tl, "hdfc") /\ ~Contains(tl, "housing development finance"))
      [] tag = "icici" ->
            Contains(tl, "icici bank") \/ Contains(tl, "icici")
      [] tag = "sbi" ->
            Contains(tl, "state bank of india")
            \/ (Contains(tl, "sbi") /\ Contains(tl, "state"))
      [] tag = "axis" ->
            Contains(tl, "axis bank") \/ Contains(tl, "axis")
      [] tag = "kotak" ->
            Contains(tl, "kotak mahindra bank") \/ Contains(tl, "kotak mahindra")
            \/ Contains(tl, "kotak")
      [] tag = "yes bank" ->
            Contains(tl, "yes bank")
      [] tag = "indusind" ->
            Contains(tl, "indusind bank") \/ Contains(tl, "indusind")
      [] tag = "onecard" ->
            Contains(tl, "onecard") \/ Contains(tl, "one card")

\* The conditions of the fallback if/elif chain.
Pass2Pred(tag, tl) ==
    CASE tag = "dcb"      -> Contains(tl, "dcb")
      [] tag = "hdfc"     -> Contains(tl, "hdfc")
      [] tag = "icici"    -> Contains(tl, "icici")
      [] tag = "sbi"      -> Contains(tl, "sbi")
      [] tag = "axis"     -> Contains(tl, "axis")
      [] tag = "kotak"    -> Contains(tl, "kotak")
      [] tag = "yes bank" -> Contains(tl, "yes") /\ Contains(tl, "bank")
      [] tag = "indusind" -> Contains(tl, "indusind")
      [] tag = "onecard"  -> Contains(tl, "onecard") \/ Contains(tl, "one card")

\* Pass1 with the icici and axis branches exchanged.
Pass1_swapped(tl) ==
    IF Pass1Pred("dcb", tl) THEN "dcb"
    ELSE IF Pass1Pred("hdfc", tl) THEN "hdfc"
    ELSE IF Pass1Pred("axis", tl) THEN "axis"
    ELSE IF Pass1Pred("sbi", tl) THEN "sbi"
    ELSE IF Pass1Pred("icici", tl) THEN "icici"
    ELSE IF Pass1Pred("kotak", tl) THEN "kotak"
    ELSE IF Pass1Pred("yes bank", tl) THEN "yes bank"
    ELSE IF Pass1Pred("indusind", tl) THEN "indusind"
    ELSE IF Pass1Pred("onecard", tl) THEN "onecard"
    ELSE NoMatch

\* First if/elif chain: the tag it returns, or NoMatch when control falls out of it.
Pass1(tl) ==
    IF Pass1Pred("dcb", tl) THEN "dcb"
    ELSE IF Pass1Pred("hdfc", tl) THEN "hdfc"
    ELSE IF Pass1Pred("icici", tl) THEN "icici"
    ELSE IF Pass1Pred("sbi", tl) THEN "sbi"
    ELSE IF Pass1Pred("axis", tl) THEN "axis"
    ELSE IF Pass1Pred("kotak", tl) THEN "kotak"
    ELSE IF Pass1Pred("yes bank", tl) THEN "yes bank"
    ELSE IF Pass1Pred("indusind", tl) THEN "indusind"
    ELSE IF Pass1Pred("onecard", tl) THEN "onecard"
    ELSE NoMatch

\* Fallback if/elif chain.
Pass2(tl) ==
    IF Pass2Pred("dcb", tl) THEN "dcb"
    ELSE IF Pass2Pred("hdfc", tl) THEN "hdfc"
    ELSE IF Pass2Pred("icici", tl) THEN "icici"
    ELSE IF Pass2Pred("sbi", tl) THEN "sbi"
    ELSE IF Pass2Pred("axis", tl) THEN "axis"
    ELSE IF Pass2Pred("kotak", tl) THEN "kotak"
    ELSE IF Pass2Pred("yes bank", tl) THEN "yes bank"
    ELSE IF Pass2Pred("indusind", tl) THEN "indusind"
    ELSE IF Pass2Pred("onecard", tl) THEN "onecard"
    ELSE NoMatch

\* detect_issuer without its final return statement.
detect_issuer_noreturn(t) ==
    LET text_lower == Lower(t)
        p1 == Pass1(text_lower)
        p2 == Pass2(text_lower)
    IN  IF p1 # NoMatch THEN [tag |-> p1, pass |-> 1]
        ELSE IF p2 # NoMatch THEN [tag |-> p2, pass |-> 2]
        ELSE [tag |-> "None", pass |-> 0]

\* detect_issuer with the loose-keyword chain tried before the phrase chain.
detect_issuer_loosefirst(t) ==
    LET text_lower == Lower(t)
        p1 == Pass1(text_lower)
        p2 == Pass2(text_lower)
    IN  IF p2 # NoMatch THEN [tag |-> p2, pass |-> 2]
        ELSE IF p1 # NoMatch THEN [tag |-> p1, pass |-> 1]
        ELSE [tag |-> "unknown", pass |-> 0]

\* backend/main.py detect_issuer: [tag, pass] where pass is the chain that returned.
detect_issuer(t) ==
    LET text_lower == Lower(t)
        p1 == Pass1(text_lower)
        p2 == Pass2(text_lower)
    IN  IF p1 # NoMatch THEN [tag |-> p1, pass |-> 1]
        ELSE IF p2 # NoMatch THEN [tag |-> p2, pass |-> 2]
        ELSE [tag |-> "unknown", pass |-> 0]

\* The Streamlit copy with two branches of its chain exchanged.
st_detect_issuer_swapped(t) ==
    LET text_lower == Lower(t)
        p1 == Pass1_swapped(text_lower)
    IN  IF p1 # NoMatch THEN p1 ELSE "unknown"

\* streamlit_app.py detect_issuer: the first chain only.
st_detect_issuer(t) ==
    LET text_lower == Lower(t)
        p1 == Pass1(text_lower)
    IN  IF p1 # NoMatch THEN p1 ELSE "unknown"

-----------------------------------------------------------------------------
(* Statement texts for the classifier *)

\* Largest number of fragments joined into one statement text.
MaxPieces == 2

IssuerPieces ==
    <<"HDFC Bank", "hdfc", "Housing Development Finance",
      "Development Credit Bank", "DCB Bank", "dcb",
      "ICICI Bank", "State Bank of India", "SBI", "Statement",
      "Axis Bank", "Kotak Mahindra Bank", "Yes Bank", "yes", "bank",
      "IndusInd Bank", "OneCard", "one card", "credit">>

\* The fragments named by idx, joined by single spaces.
RECURSIVE Join(_, _)
Join(pieces, idx) ==
    IF idx = <<>> THEN ""
    ELSE IF Len(idx) = 1 THEN pieces[idx[1]]
    ELSE pieces[idx[1]] \o " " \o Join(pieces, Tail(idx))

TextsOver(pieces) ==
    { Join(pieces, idx) :
        idx \in UNION { [1..n -> 1..Len(pieces)] : n \in 0..MaxPieces } }

IssuerTexts == TextsOver(IssuerPieces)

-----------------------------------------------------------------------------
(* Classification of one statement text *)

InitIssuer ==
    /\ text \in IssuerTexts
    /\ issuer = NotRun
    /\ pass = 0
    /\ st_issuer = NotRun
    /\ pc = "idle"
    /\ card = NotRun
    /\ cycle = NotRunCycle
    /\ due = NotRun
    /\ balance = NotRun
    /\ txn = NotRunTxn
    /\ NoEntryPoint

DetectIssuer ==
    /\ issuer = NotRun
    /\ issuer' = detect_issuer(text).tag
    /\ pass' = detect_issuer(text).pass
    /\ UNCHANGED <<text, st_issuer, pc, card, cycle, due, balance, txn>>
    /\ UNCHANGED entry_vars

StreamlitDetectIssuer ==
    /\ st_issuer = NotRun
    /\ st_issuer' = st_detect_issuer(text)
    /\ UNCHANGED <<text, issuer, pass, pc, card, cycle, due, balance, txn>>
    /\ UNCHANGED entry_vars

NextIssuer == DetectIssuer \/ StreamlitDetectIssuer

SpecIssuer == InitIssuer /\ [][NextIssuer]_vars

-----------------------------------------------------------------------------
(* Regular expressions: re.search with Python's backtracking order *)

Digit == {"0","1","2","3","4","5","6","7","8","9"}

Letter == {"a","b","c","d","e","f","g","h","i","j","k","l","m",
           "n","o","p","q","r","s","t","u","v","w","x","y","z"} \cup UpperCase

\* \s
Space == {" ", "\t", "\n", "\r", "\f"}

\* \w
WordChar == Letter \cup Digit \cup {"_"}

\* Stands for an absent upper limit of a repetition; longer than any text.
Unbounded == 1000000

\* Pattern elements.  A pattern is a sequence of elements; every repetition in
\* the rules of parsers.py applies to a single character or character class.
\*   lit   : the literal string s
\*   cls   : between lo and hi characters of the class (set, or its complement
\*           when neg), as many as possible first, or as few when lazy
\*   alt   : one of the literal strings of alts, tried in order
\*   open, close : start and end of a capturing group
\*   wb    : \b
El(k, str, set, neg, lo, hi, lazy, alts) ==
    [k |-> k, s |-> str, set |-> set, neg |-> neg, lo |-> lo, hi |-> hi,
     lazy |-> lazy, alts |-> alts]

Lit(str)          == << El("lit", str, {}, FALSE, 1, 1, FALSE, <<>>) >>
Rep(set, lo, hi)  == << El("cls", "", set, FALSE, lo, hi, FALSE, <<>>) >>
One(set)          == Rep(set, 1, 1)
Opt(set)          == Rep(set, 0, 1)
Star(set)         == Rep(set, 0, Unbounded)
Plus(set)         == Rep(set, 1, Unbounded)
\* .*?  (the dot matches every character but the newline)
LazyDotStar       == << El("cls", "", {"\n"}, TRUE, 0, Unbounded, TRUE, <<>>) >>
Alt(alts)         == << El("alt", "", {}, FALSE, 1, 1, FALSE, alts) >>
Open              == << El("open", "", {}, FALSE, 0, 0, FALSE, <<>>) >>
Close             == << El("close", "", {}, FALSE, 0, 0, FALSE, <<>>) >>
WB                == << El("wb", "", {}, FALSE, 0, 0, FALSE, <<>>) >>

Fail == [ok |-> FALSE, caps |-> <<>>]

InClass(c, e) == (c \in e.set) # e.neg

\* Number of characters from pos on that belong to the class of e, at most lim.
RECURSIVE RunLen(_, _, _, _)
RunLen(s, pos, e, lim) ==
    IF lim = 0 \/ pos > Len(s) \/ ~InClass(Char(s, pos), e) THEN 0
    ELSE 1 + RunLen(s, pos + 1, e, lim - 1)

\* The string w stands in s at position pos.
StartsAt(s, pos, w) ==
    pos + Len(w) - 1 <= Len(s) /\ SubSeq(s, pos, pos + Len(w) - 1) = w

IsWord(s, pos) == pos >= 1 /\ pos <= Len(s) /\ Char(s, pos) \in WordChar

\* \b holds before position pos
AtBoundary(s, pos) == IsWord(s, pos - 1) # IsWord(s, pos)

\* Match elements i.. of pat against s from position pos on.  The result is
\* the first success in backtracking order: caps lists the positions at which
\* the group markers were passed.
RECURSIVE MatchAt(_, _, _, _, _)
RECURSIVE TryRep(_, _, _, _, _, _, _)
RECURSIVE TryAlt(_, _, _, _, _, _)

MatchAt(pat, i, s, pos, caps) ==
    IF i > Len(pat) THEN [ok |-> TRUE, caps |-> caps]
    ELSE LET e == pat[i] IN
        CASE e.k = "lit" ->
                IF StartsAt(s, pos, e.s)
                THEN MatchAt(pat, i + 1, s, pos + Len(e.s), caps)
                ELSE Fail
          [] e.k = "cls" ->
                LET run == RunLen(s, pos, e, e.hi)
                IN  IF run < e.lo THEN Fail
                    ELSE TryRep(pat, i, s, pos, caps,
                                IF e.lazy THEN e.lo ELSE run, run)
          [] e.k = "alt" -> TryAlt(pat, i, s, pos, caps, 1)
          [] e.k \in {"open", "close"} ->
                MatchAt(pat, i + 1, s, pos, Append(caps, pos))
          [] e.k = "wb" ->
                IF AtBoundary(s, pos) THEN MatchAt(pat, i + 1, s, pos, caps)
                ELSE Fail

\* Element i is a repetition with run matching characters available: try
\* the rest of the pattern after k of them, then after the next count in
\* preference order (fewer when greedy, more when lazy).
TryRep(pat, i, s, pos, caps, k, run) ==
    LET r == MatchAt(pat, i + 1, s, pos + k, caps)
        e == pat[i]
    IN  IF r.ok THEN r
        ELSE IF e.lazy
             THEN IF k < run THEN TryRep(pat, i, s, pos, caps, k + 1, run) ELSE Fail
             ELSE IF k > e.lo THEN TryRep(pat, i, s, pos, caps, k - 1, run) ELSE Fail

TryAlt(pat, i, s, pos, caps, a) ==
    LET alts == pat[i].alts IN
    IF a > Len(alts) THEN Fail
    ELSE LET w == alts[a]
             r == IF StartsAt(s, pos, w)
                  THEN MatchAt(pat, i + 1, s, pos + Len(w), caps)
                  ELSE Fail
         IN  IF r.ok THEN r ELSE TryAlt(pat, i, s, pos, caps, a + 1)

\* The match starting leftmost in s, at start or later.
SearchFrom(pat, s, start) ==
    LET starts == { p \in start..(Len(s) + 1) : MatchAt(pat, 1, s, p, <<>>).ok }
    IN  IF starts = {} THEN Fail
        ELSE MatchAt(pat, 1, s, CHOOSE p \in starts : \A q \in starts : p <= q, <<>>)

\* Every literal of a pattern stands somewhere in a text the pattern matches:
\* a text that lacks one is rejected without trying the start positions.
LiteralsPresent(pat, subject) ==
    \A k \in 1..Len(pat) : pat[k].k = "lit" => Contains(subject, pat[k].s)

\* re.search(pattern, text, flags): [ok, g] with g the captured groups.  The
\* match is made on subject, which is the text as the flags make the engine
\* read it: Lower(text) under re.IGNORECASE (the rules are written in lower
\* case), the text itself without the flag.  The captures are cut from the
\* text.
Search(pat, s, subject) ==
    LET r == IF LiteralsPresent(pat, subject) THEN SearchFrom(pat, subject, 1) ELSE Fail
    IN  IF ~r.ok THEN [ok |-> FALSE, g |-> <<>>]
        ELSE [ok |-> TRUE,
              g  |-> [n \in 1..(Len(r.caps) \div 2) |->
                        SubSeq(s, r.caps[2 * n - 1], r.caps[2 * n] - 1)]]

-----------------------------------------------------------------------------
(* Field extractor: the rules of CreditCardParser *)

\* The "not found" value of every field.
Sentinel == "N/A"

Sp1      == Plus(Space)                       \* \s+
Sp0      == Star(Space)                       \* \s*
LabelSep == Plus({":"} \cup Space)            \* [:\s]+
Currency == Opt({"₹", "$"})                   \* [₹$]?
Mask     == {"x", "*"}                        \* [x*]
DateSep  == {"/", ".", "-"}                   \* [/.-]

Digits4  == Open \o Rep(Digit, 4, 4) \o Close                \* (\d{4})

\* (\d{1,2}[/.-]\d{1,2}[/.-]\d{2,4})
Date == Open \o Rep(Digit, 1, 2) \o One(DateSep) \o Rep(Digit, 1, 2)
             \o One(DateSep) \o Rep(Digit, 2, 4) \o Close

\* ([\d,]+\.?\d*)
Amount == Open \o Plus(Digit \cup {","}) \o Opt({"."}) \o Star(Digit) \o Close

\* label[:\s]+[₹$]?\s*([\d,]+\.?\d*)
Labelled(label) == label \o LabelSep \o Currency \o Sp0 \o Amount

\* transactions?  and the like: a word with an optional final letter
Word(stem, last) == Lit(stem) \o Opt({last})

\* patterns of extract_last_four_digits
card_patterns == <<
    Lit("****") \o Sp0 \o Digits4,
    Lit("xxxx") \o Sp0 \o Digits4,
    Lit("ending") \o Sp1 \o Lit("in") \o Sp1 \o Digits4,
    Lit("card") \o Sp1 \o Lit("ending") \o Sp1 \o Digits4,
    Lit("card") \o Sp1 \o Lit("number") \o Sp1 \o Lit("ending") \o Sp1 \o Digits4,
    Digits4 \o Sp0 \o Lit("ending"),
    WB \o Digits4 \o Sp0 \o Alt(<<"ending", "expires">>),
    Lit("card") \o Sp1 \o Lit("no") \o One({".", ":"}) \o Sp0 \o Plus(Mask)
        \o Sp0 \o Digits4,
    Rep(Mask, 8, Unbounded) \o Sp0 \o Digits4 >>

\* \b\d{4}\s+\d{4}\s+\d{4}\s+(\d{4})\b
card_pattern ==
    WB \o Rep(Digit, 4, 4) \o Sp1 \o Rep(Digit, 4, 4) \o Sp1 \o Rep(Digit, 4, 4)
       \o Sp1 \o Digits4 \o WB

\* (?:card|account).*?[-x*\s]+(\d{4})\b
indian_pattern ==
    Alt(<<"card", "account">>) \o LazyDotStar \o Plus({"-", "x", "*"} \cup Space)
        \o Digits4 \o WB

\* patterns of extract_billing_cycle
cycle_patterns == <<
    Lit("billing") \o Sp1 \o Lit("period") \o LabelSep \o Date \o Sp1 \o Lit("to") \o Sp1 \o Date,
    Lit("statement") \o Sp1 \o Lit("period") \o LabelSep \o Date \o Sp1 \o Lit("to") \o Sp1 \o Date,
    Lit("billing") \o Sp1 \o Lit("cycle") \o LabelSep \o Date \o Sp1 \o Lit("to") \o Sp1 \o Date,
    Date \o Sp1 \o Lit("through") \o Sp1 \o Date,
    Date \o Sp1 \o Lit("-") \o Sp1 \o Date,
    Lit("from") \o Sp1 \o Date \o Sp1 \o Lit("to") \o Sp1 \o Date,
    Lit("period") \o LabelSep \o Date \o Sp1 \o Lit("to") \o Sp1 \o Date >>

\* patterns of extract_payment_due_date
due_patterns == <<
    Lit("payment") \o Sp1 \o Lit("due") \o Sp1 \o Lit("date") \o LabelSep \o Date,
    Lit("due") \o Sp1 \o Lit("date") \o LabelSep \o Date,
    Lit("minimum") \o Sp1 \o Lit("payment") \o Sp1 \o Lit("due") \o Sp1 \o Lit("by")
        \o LabelSep \o Date,
    Lit("pay") \o Sp1 \o Lit("by") \o LabelSep \o Date,
    Lit("payment") \o Sp1 \o Lit("due") \o Sp1 \o Lit("on") \o LabelSep \o Date,
    Lit("payable") \o Sp1 \o Lit("by") \o LabelSep \o Date,
    Lit("payable") \o Sp1 \o Lit("on") \o Sp1 \o Lit("or") \o Sp1 \o Lit("before")
        \o LabelSep \o Date,
    Lit("due") \o Sp1 \o Lit("by") \o LabelSep \o Date >>

\* patterns of extract_total_balance
balance_patterns == <<
    Labelled(Lit("total") \o Sp1 \o Lit("balance")),
    Labelled(Lit("new") \o Sp1 \o Lit("balance")),
    Labelled(Lit("current") \o Sp1 \o Lit("balance")),
    Labelled(Lit("outstanding") \o Sp1 \o Lit("balance")),
    Labelled(Lit("amount") \o Sp1 \o Lit("due")),
    Labelled(Lit("total") \o Sp1 \o Lit("amount") \o Sp1 \o Lit("due")),
    Labelled(Lit("outstanding") \o Sp1 \o Lit("amount")),
    Labelled(Lit("balance") \o Sp1 \o Lit("amount")),
    Labelled(Lit("balance")),
    Lit("₹") \o Sp0 \o Amount,
    Word("rupee", "s") \o Sp0 \o Amount,
    Word("rs", ".") \o Sp0 \o Amount,
    Lit("inr") \o Sp0 \o Amount >>

\* count_patterns of extract_transaction_info
count_patterns == <<
    Open \o Plus(Digit) \o Close \o Sp1 \o Word("transaction", "s"),
    Lit("total") \o Sp1 \o Word("transaction", "s") \o LabelSep
        \o Open \o Plus(Digit) \o Close,
    Lit("number") \o Sp1 \o Lit("of") \o Sp1 \o Word("transaction", "s") \o LabelSep
        \o Open \o Plus(Digit) \o Close,
    Lit("transaction") \o Sp1 \o Lit("count") \o LabelSep \o Open \o Plus(Digit) \o Close,
    Word("no", ".") \o Sp1 \o Lit("of") \o Sp1 \o Word("transaction", "s") \o LabelSep
        \o Open \o Plus(Digit) \o Close >>

\* charge_patterns of extract_transaction_info
charge_patterns == <<
    Labelled(Lit("total") \o Sp1 \o Word("charge", "s")),
    Labelled(Lit("total") \o Sp1 \o Word("purchase", "s")),
    Labelled(Lit("total") \o Sp1 \o Lit("spend")),
    Labelled(Lit("total") \o Sp1 \o Word("debit", "s")),
    Labelled(Lit("total") \o Sp1 \o Lit("spending")),
    Labelled(Word("charge", "s") \o Sp1 \o Lit("this") \o Sp1 \o Lit("period")),
    Labelled(Word("purchase", "s") \o Sp1 \o Lit("this") \o Sp1 \o Lit("period")),
    Lit("₹") \o Sp0 \o Amount,
    Word("rs", ".") \o Sp0 \o Amount >>

-----------------------------------------------------------------------------
(* Field extractor: the five operations *)

NoneFound == [ok |-> FALSE, g |-> <<>>]

\* for pattern in patterns: match = re.search(pattern, text, re.IGNORECASE);
\* if match: return ...          (the first rule from i on that matches)
RECURSIVE FirstMatch(_, _, _, _)
FirstMatch(patterns, t, tl, i) ==
    IF i > Len(patterns) THEN NoneFound
    ELSE LET match == Search(patterns[i], t, tl)
         IN  IF match.ok THEN match ELSE FirstMatch(patterns, t, tl, i + 1)

\* extract_last_four_digits without its final return statement.
extract_last_four_digits_noreturn(t) ==
    LET tl == Lower(t)
        m1 == FirstMatch(card_patterns, t, tl, 1)
        m2 == Search(card_pattern, t, t)
        m3 == Search(indian_pattern, t, tl)
    IN  IF m1.ok THEN m1.g[1]
        ELSE IF m2.ok THEN m2.g[1]
        ELSE IF m3.ok THEN m3.g[1]
        ELSE "None"

extract_last_four_digits(t) ==
    LET tl == Lower(t)
        m1 == FirstMatch(card_patterns, t, tl, 1)
        m2 == Search(card_pattern, t, t)
        m3 == Search(indian_pattern, t, tl)
    IN  IF m1.ok THEN m1.g[1]
        ELSE IF m2.ok THEN m2.g[1]
        ELSE IF m3.ok THEN m3.g[1]
        ELSE Sentinel

\* extract_billing_cycle filling in the start date alone.
extract_billing_cycle_startonly(t) ==
    LET match == FirstMatch(cycle_patterns, t, Lower(t), 1)
    IN  IF match.ok
        THEN [start_date |-> match.g[1], end_date |-> Sentinel]
        ELSE [start_date |-> Sentinel, end_date |-> Sentinel]

extract_billing_cycle(t) ==
    LET match == FirstMatch(cycle_patterns, t, Lower(t), 1)
    IN  IF match.ok
        THEN [start_date |-> match.g[1], end_date |-> match.g[2]]
        ELSE [start_date |-> Sentinel, end_date |-> Sentinel]

\* The last rule from i down to 1 that matches.
RECURSIVE LastMatch(_, _, _, _)
LastMatch(patterns, t, tl, i) ==
    IF i < 1 THEN NoneFound
    ELSE LET match == Search(patterns[i], t, tl)
         IN  IF match.ok THEN match ELSE LastMatch(patterns, t, tl, i - 1)

\* extract_payment_due_date trying its rules from the last to the first.
extract_payment_due_date_reversed(t) ==
    LET match == LastMatch(due_patterns, t, Lower(t), Len(due_patterns))
    IN  IF match.ok THEN match.g[1] ELSE Sentinel

extract_payment_due_date(t) ==
    LET match == FirstMatch(due_patterns, t, Lower(t), 1)
    IN  IF match.ok THEN match.g[1] ELSE Sentinel

\* str.replace(old, '') for a one-character old
RECURSIVE Remove(_, _, _)
Remove(str, old, i) ==
    IF i > Len(str) THEN ""
    ELSE (IF Char(str, i) = old THEN "" ELSE Char(str, i)) \o Remove(str, old, i + 1)

\* match.group(1).replace(',', '').replace(' ', '')
StripSeparators(capture) == Remove(Remove(capture, ",", 1), " ", 1)

\* Position of the first "." of a string, 0 when there is none.
RECURSIVE DotAt(_, _)
DotAt(str, i) ==
    IF i > Len(str) THEN 0 ELSE IF Char(str, i) = "." THEN i ELSE DotAt(str, i + 1)

AllDigits(str) == \A i \in 1..Len(str) : Char(str, i) \in Digit

WholePart(a) == IF DotAt(a, 1) = 0 THEN a ELSE SubSeq(a, 1, DotAt(a, 1) - 1)
FracPart(a)  == IF DotAt(a, 1) = 0 THEN "" ELSE SubSeq(a, DotAt(a, 1) + 1, Len(a))

\* float(amount) does not raise ValueError: digits with at most one point and
\* at least one digit (the only shapes a separator-stripped capture can take).
ParsesAsFloat(a) ==
    /\ AllDigits(WholePart(a))
    /\ AllDigits(FracPart(a))
    /\ Len(WholePart(a)) + Len(FracPart(a)) >= 1

DigitValue(c) ==
    CASE c = "0" -> 0 [] c = "1" -> 1 [] c = "2" -> 2 [] c = "3" -> 3 [] c = "4" -> 4
      [] c = "5" -> 5 [] c = "6" -> 6 [] c = "7" -> 7 [] c = "8" -> 8 [] c = "9" -> 9

\* The number written by a string of digits (0 for the empty string).
RECURSIVE ToNat(_, _)
ToNat(str, n) ==
    IF n = 0 THEN 0 ELSE 10 * ToNat(str, n - 1) + DigitValue(Char(str, n))

\* 2^e modulo 1000
RECURSIVE Pow2Mod1000(_)
Pow2Mod1000(e) == IF e = 0 THEN 1 ELSE (2 * Pow2Mod1000(e - 1)) % 1000

\* The exponent of a positive integer: the L with 2^L <= n < 2^(L+1).
RECURSIVE Log2Floor(_)
Log2Floor(n) == IF n < 2 THEN 0 ELSE 1 + Log2Floor(n \div 2)

\* The number of doublings that take a positive p to 1000 or more.
RECURSIVE Doublings(_)
Doublings(p) == IF p >= 1000 THEN 0 ELSE 1 + Doublings(2 * p)

\* float(amount) of a decimal p/1000 that lies halfway between two hundredths:
\* the double nearest to it has a 53-bit mantissa m = round(p * 2^e / 1000), and
\* lies above p/1000 (+1), below it (-1) or on it (0) as the remainder of
\* p * 2^e by 1000 is more than 500, less than 500 or 0 (500 cannot happen:
\* 8 divides p * 2^e and 1000).
DoubleSide(p) ==
    LET e == IF p >= 1000 THEN 52 - Log2Floor(p \div 1000) ELSE 52 + Doublings(p)
        r == ((p % 1000) * Pow2Mod1000(e)) % 1000
    IN  IF r = 0 THEN 0 ELSE IF r > 500 THEN 1 ELSE -1

\* float(amount) cut off after its second decimal, in hundredths.
Hundredths_truncated(a) ==
    LET w  == WholePart(a)
        f  == FracPart(a)
        f2 == IF Len(f) >= 2 THEN SubSeq(f, 1, 2)
              ELSE IF Len(f) = 1 THEN f \o "0" ELSE "00"
    IN  100 * ToNat(w, Len(w)) + ToNat(f2, 2)

\* float(amount) under the format .2f, in hundredths: the hundredth nearest to
\* the double.  A capture that lies halfway between two hundredths goes the way
\* its double lies, and to the even hundredth when the double is the capture's
\* value itself.  (Exact for captures of at most 9 significant digits, whose
\* doubles lie on the same side of every such midpoint as they do.)
Hundredths(a) ==
    LET w    == WholePart(a)
        f    == FracPart(a)
        f2   == IF Len(f) >= 2 THEN SubSeq(f, 1, 2)
                ELSE IF Len(f) = 1 THEN f \o "0" ELSE "00"
        rest == IF Len(f) > 2 THEN SubSeq(f, 3, Len(f)) ELSE ""
        base == 100 * ToNat(w, Len(w)) + ToNat(f2, 2)
        tail == IF rest = "" THEN 0 ELSE DigitValue(Char(rest, 1))
        more == Len(rest) > 1 /\ ToNat(SubSeq(rest, 2, Len(rest)), Len(rest) - 1) > 0
        side == DoubleSide(10 * base + 5)
        up   == \/ tail > 5
                \/ (tail = 5 /\ more)
                \/ (tail = 5 /\ ~more /\ side = 1)
                \/ (tail = 5 /\ ~more /\ side = 0 /\ base % 2 = 1)
    IN  base + (IF up THEN 1 ELSE 0)

TwoDigits(n) == IF n < 10 THEN "0" \o ToString(n) ELSE ToString(n)

ThreeDigits(n) ==
    IF n < 10 THEN "00" \o ToString(n)
    ELSE IF n < 100 THEN "0" \o ToString(n) ELSE ToString(n)

\* format(n, ',') of a natural number: groups of three digits
RECURSIVE Grouped(_)
Grouped(n) ==
    IF n < 1000 THEN ToString(n)
    ELSE Grouped(n \div 1000) \o "," \o ThreeDigits(n % 1000)

\* f"₹{float(amount):,.2f}"
FormatAmount(a) ==
    LET h == Hundredths(a)
    IN  "₹" \o Grouped(h \div 100) \o "." \o TwoDigits(h % 100)

\* The loop over amount rules without its try/except: the ValueError of a
\* capture that does not parse leaves the operation.
RECURSIVE FirstAmount_unguarded(_, _, _, _)
FirstAmount_unguarded(patterns, t, tl, i) ==
    IF i > Len(patterns) THEN Sentinel
    ELSE LET match  == Search(patterns[i], t, tl)
             amount == StripSeparators(match.g[1])
         IN  IF match.ok
             THEN (IF ParsesAsFloat(amount) THEN FormatAmount(amount) ELSE "ValueError")
             ELSE FirstAmount_unguarded(patterns, t, tl, i + 1)

\* The loop over amount rules: a rule that matches but whose capture does not
\* parse is passed over (except ValueError: continue).
RECURSIVE FirstAmount(_, _, _, _)
FirstAmount(patterns, t, tl, i) ==
    IF i > Len(patterns) THEN Sentinel
    ELSE LET match  == Search(patterns[i], t, tl)
             amount == StripSeparators(match.g[1])
         IN  IF match.ok /\ ParsesAsFloat(amount) THEN FormatAmount(amount)
             ELSE FirstAmount(patterns, t, tl, i + 1)

extract_total_balance(t) == FirstAmount(balance_patterns, t, Lower(t), 1)

\* extract_transaction_info leaving with both sentinels when no count rule
\* matches.
extract_transaction_info_shortcircuit(t) ==
    LET tl    == Lower(t)
        match == FirstMatch(count_patterns, t, tl, 1)
    IN  IF ~match.ok
        THEN [transaction_count |-> Sentinel, total_charges |-> Sentinel]
        ELSE [transaction_count |-> match.g[1],
              total_charges     |-> FirstAmount(charge_patterns, t, tl, 1)]

extract_transaction_info(t) ==
    LET tl    == Lower(t)
        match == FirstMatch(count_patterns, t, tl, 1)
    IN  [transaction_count |-> IF match.ok THEN match.g[1] ELSE Sentinel,
         total_charges     |-> FirstAmount(charge_patterns, t, tl, 1)]

-----------------------------------------------------------------------------
(* Statement texts for the extractor, and the extraction of one text *)

\* Fragments of statement text, one family per field and one across fields.
CardPieces ==
    <<"Card ending 4532", "ending in 9921", "XXXX 7788", "4111 1111 1111", "4532",
      "Account", "expires">>

CyclePieces ==
    <<"Statement Period: 01/01/2024 to 01/31/2024", "05.02.24 through 06.03.24",
      "from 1/3/2024 to 31/3/2024", "10/11/12 - 9/12/12", "07-04-2024",
      "Billing Period", "to 30-04-2024">>

DuePieces ==
    <<"Payment Due Date: 15/02/2024", "Pay by 20/02/2024", "Due by: 25-02-24",
      "Due Date", "07-04-2024", "Payable by", "Minimum">>

BalancePieces ==
    <<"Total Balance: $2,456.78", "Balance: ,", "Rs. 5,000", "Total Balance: abc",
      "INR 75.5", "Amount Due", "₹ 1,00,000">>

TxnPieces ==
    <<"Total Transactions: 10", "25 transactions", "No. of transactions: 7",
      "Total Charges: $1,992.28", "Total Charges: ,", "Rs. 5,000", "Total Spend">>

NumberPieces ==
    <<"4111 1111 1111 4532", "Card xxxx-xxxx-xxxx-1234", "Ref", "**** 4242">>

AmountPieces ==
    <<"New Balance 10.999", "Balance: 2.675", "Rupees 0.125", "INR 1.005",
      "Outstanding Amount: ₹12.">>

MixedPieces ==
    <<"Account", "XXXX 7788", "07-04-2024", "Pay by 20/02/2024",
      "Total Balance: $2,456.78", "25 transactions", "Total Charges: $1,992.28">>

FieldTexts ==
    UNION { TextsOver(pieces) :
        pieces \in {CardPieces, CyclePieces, DuePieces, BalancePieces, TxnPieces,
                    NumberPieces, AmountPieces, MixedPieces} }

InitExtract ==
    /\ text \in FieldTexts
    /\ issuer = NotRun
    /\ pass = 0
    /\ st_issuer = NotRun
    /\ pc = "card"
    /\ card = NotRun
    /\ cycle = NotRunCycle
    /\ due = NotRun
    /\ balance = NotRun
    /\ txn = NotRunTxn
    /\ NoEntryPoint

\* The fields of the record built by parse(), in the order of evaluation.
ExtractLastFourDigits ==
    /\ pc = "card"
    /\ card' = extract_last_four_digits(text)
    /\ pc' = "cycle"
    /\ UNCHANGED <<text, issuer, pass, st_issuer, cycle, due, balance, txn>>
    /\ UNCHANGED entry_vars

ExtractBillingCycle ==
    /\ pc = "cycle"
    /\ cycle' = extract_billing_cycle(text)
    /\ pc' = "due"
    /\ UNCHANGED <<text, issuer, pass, st_issuer, card, due, balance, txn>>
    /\ UNCHANGED entry_vars

ExtractPaymentDueDate ==
    /\ pc = "due"
    /\ due' = extract_payment_due_date(text)
    /\ pc' = "balance"
    /\ UNCHANGED <<text, issuer, pass, st_issuer, card, cycle, balance, txn>>
    /\ UNCHANGED entry_vars

ExtractTotalBalance ==
    /\ pc = "balance"
    /\ balance' = extract_total_balance(text)
    /\ pc' = "txn"
    /\ UNCHANGED <<text, issuer, pass, st_issuer, card, cycle, due, txn>>
    /\ UNCHANGED entry_vars

ExtractTransactionInfo ==
    /\ pc = "txn"
    /\ txn' = extract_transaction_info(text)
    /\ pc' = "done"
    /\ UNCHANGED <<text, issuer, pass, st_issuer, card, cycle, due, balance>>
    /\ UNCHANGED entry_vars

NextExtract ==
    \/ ExtractLastFourDigits
    \/ ExtractBillingCycle
    \/ ExtractPaymentDueDate
    \/ ExtractTotalBalance
    \/ ExtractTransactionInfo

SpecExtract == InitExtract /\ [][NextExtract]_vars

-----------------------------------------------------------------------------
(* The parsers and the record they build *)

\* The word "no value" of Python.
None == "<None>"

\* PARSERS without the key "yes bank".
PARSERS_yesonly ==
    ("hdfc" :> "HDFCParser") @@ ("hdfc bank" :> "HDFCParser")
    @@ ("icici" :> "ICICIParser") @@ ("icici bank" :> "ICICIParser")
    @@ ("sbi" :> "SBIParser") @@ ("state bank of india" :> "SBIParser")
    @@ ("axis" :> "AxisParser") @@ ("axis bank" :> "AxisParser")
    @@ ("kotak" :> "KotakParser") @@ ("kotak mahindra" :> "KotakParser")
    @@ ("kotak mahindra bank" :> "KotakParser")
    @@ ("dcb" :> "DCBParser") @@ ("dcb bank" :> "DCBParser")
    @@ ("development credit bank" :> "DCBParser")
    @@ ("yes" :> "YesBankParser")
    @@ ("indusind" :> "IndusIndParser") @@ ("indusind bank" :> "IndusIndParser")
    @@ ("onecard" :> "OneCardParser") @@ ("one card" :> "OneCardParser")

\* PARSERS: issuer key -> parser instance, each named by its class.
PARSERS ==
    ("hdfc" :> "HDFCParser") @@ ("hdfc bank" :> "HDFCParser")
    @@ ("icici" :> "ICICIParser") @@ ("icici bank" :> "ICICIParser")
    @@ ("sbi" :> "SBIParser") @@ ("state bank of india" :> "SBIParser")
    @@ ("axis" :> "AxisParser") @@ ("axis bank" :> "AxisParser")
    @@ ("kotak" :> "KotakParser") @@ ("kotak mahindra" :> "KotakParser")
    @@ ("kotak mahindra bank" :> "KotakParser")
    @@ ("dcb" :> "DCBParser") @@ ("dcb bank" :> "DCBParser")
    @@ ("development credit bank" :> "DCBParser")
    @@ ("yes bank" :> "YesBankParser") @@ ("yes" :> "YesBankParser")
    @@ ("indusind" :> "IndusIndParser") @@ ("indusind bank" :> "IndusIndParser")
    @@ ("onecard" :> "OneCardParser") @@ ("one card" :> "OneCardParser")

\* dict.get(key)
Get(dict, key) == IF key \in DOMAIN dict THEN dict[key] ELSE None

\* The "issuer" literal in the parse method of each parser class.
ParserIssuer ==
    ("HDFCParser" :> "HDFC Bank") @@ ("ICICIParser" :> "ICICI Bank")
    @@ ("SBIParser" :> "State Bank of India") @@ ("AxisParser" :> "Axis Bank")
    @@ ("KotakParser" :> "Kotak Mahindra Bank") @@ ("DCBParser" :> "DCB Bank")
    @@ ("YesBankParser" :> "Yes Bank") @@ ("IndusIndParser" :> "IndusInd Bank")
    @@ ("OneCardParser" :> "OneCard")

\* parse leaving out the due date when none was found.
parse_omitting(parser, t) ==
    LET due_date == extract_payment_due_date(t)
        found == [issuer |-> ParserIssuer[parser],
                  card_last_four_digits |-> extract_last_four_digits(t),
                  billing_cycle |-> extract_billing_cycle(t),
                  payment_due_date |-> due_date,
                  total_balance |-> extract_total_balance(t),
                  transaction_info |-> extract_transaction_info(t)]
    IN  IF due_date # Sentinel THEN found
        ELSE [k \in DOMAIN found \ {"payment_due_date"} |-> found[k]]

\* parse of a class that overrides the extraction of the card number.
parse_overridden(parser, t) ==
    [issuer |-> ParserIssuer[parser],
     card_last_four_digits |-> IF parser = "SBIParser" THEN Sentinel
                               ELSE extract_last_four_digits(t),
     billing_cycle |-> extract_billing_cycle(t),
     payment_due_date |-> extract_payment_due_date(t),
     total_balance |-> extract_total_balance(t),
     transaction_info |-> extract_transaction_info(t)]

\* parser.parse(text, pdf_bytes): the same six entries in every class.
parse(parser, t) ==
    [issuer |-> ParserIssuer[parser],
     card_last_four_digits |-> extract_last_four_digits(t),
     billing_cycle |-> extract_billing_cycle(t),
     payment_due_date |-> extract_payment_due_date(t),
     total_balance |-> extract_total_balance(t),
     transaction_info |-> extract_transaction_info(t)]

issuer_display_names ==
    ("hdfc" :> "HDFC Bank") @@ ("icici" :> "ICICI Bank")
    @@ ("sbi" :> "State Bank of India") @@ ("axis" :> "Axis Bank")
    @@ ("kotak" :> "Kotak Mahindra Bank") @@ ("dcb" :> "DCB Bank")
    @@ ("yes bank" :> "Yes Bank") @@ ("indusind" :> "IndusInd Bank")
    @@ ("onecard" :> "OneCard")

\* str.upper() of one character
UpperChar(c) ==
    IF \E u \in UpperCase : LowerChar(u) = c /\ u # c
    THEN CHOOSE u \in UpperCase : LowerChar(u) = c /\ u # c
    ELSE c

\* str.title(): a letter after a non-letter in upper case, the others in lower
\* case.
RECURSIVE TitleFrom(_, _)
TitleFrom(str, i) ==
    IF i > Len(str) THEN ""
    ELSE LET c == Char(str, i)
             first == i = 1 \/ Char(str, i - 1) \notin Letter
         IN  (IF first THEN UpperChar(c) ELSE LowerChar(c)) \o TitleFrom(str, i + 1)

Title(str) == TitleFrom(str, 1)

\* issuer_display_names.get(issuer, issuer.title())
DisplayName(tag) ==
    IF tag \in DOMAIN issuer_display_names THEN issuer_display_names[tag] ELSE Title(tag)

\* The list of get_supported_issuers, put into the rejection of
\* parse_statement.
supported_issuers_listed ==
    <<"HDFC Bank", "ICICI Bank", "State Bank of India", "Axis Bank",
      "Kotak Mahindra Bank", "DCB Bank", "Yes Bank", "IndusInd Bank">>

\* The list in the rejection of parse_statement.
supported_issuers ==
    <<"HDFC Bank", "ICICI Bank", "State Bank of India", "Axis Bank",
      "Kotak Mahindra Bank", "DCB Bank", "Yes Bank", "IndusInd Bank", "OneCard">>

\* SUPPORTED_BANKS of streamlit_app.py
SUPPORTED_BANKS ==
    <<"HDFC Bank", "ICICI Bank", "State Bank of India", "Axis Bank",
      "Kotak Mahindra Bank", "DCB Bank", "Yes Bank", "IndusInd Bank", "OneCard">>

-----------------------------------------------------------------------------
(* The upload: the bytes, the password, and what pdfplumber makes of them *)

\* Largest number of pages of an uploaded document.
MaxPages == 2

\* page.extract_text() raising instead of returning.
PageRaises == "<extract_text raises>"

\* What page.extract_text() gives for a page: a text, nothing ("" stands for
\* None as well, the code tests both by truth value), or an exception.
PageTexts ==
    {"", " ", "HDFC Bank XXXX 4532", "Yes Bank Pay by 20/02/2024", "Receipt Rs. 12",
     PageRaises}

\* An exception of pdfplumber.open as the handlers look at it:
\* type(e).__name__, str(e), and str(e.code) ("" when e has no code).
OpenError(type, msg) == [type |-> type, msg |-> msg, code |-> ""]

NoError == OpenError("", "")

\* Raised for a document that is encrypted and not opened by the password:
\* pdfminer's PDFPasswordIncorrect, which has no message, or an error of the
\* kind the handler lists by name.
EncryptionErrors ==
    { OpenError("PDFPasswordIncorrect", ""),
      OpenError("FileNotDecryptedError", "File has not been decrypted") }

\* Raised for a document that is damaged.
DamageErrors ==
    { OpenError("PDFSyntaxError", "No /Root object! - Is this really a PDF?"),
      OpenError("PdfReadError", "EOF marker not found") }

\* Raised by pdf_doc.pages of an opened document whose page tree cannot be
\* read.
PagesErrors ==
    { OpenError("PDFSyntaxError", "Invalid page tree"),
      OpenError("PSEOF", "Unexpected EOF") }

\* str.strip()
RECURSIVE FirstNonSpace(_, _)
FirstNonSpace(str, i) ==
    IF i > Len(str) \/ Char(str, i) \notin Space THEN i ELSE FirstNonSpace(str, i + 1)

RECURSIVE LastNonSpace(_, _)
LastNonSpace(str, i) ==
    IF i < 1 \/ Char(str, i) \notin Space THEN i ELSE LastNonSpace(str, i - 1)

Strip(str) ==
    LET a == FirstNonSpace(str, 1)
        b == LastNonSpace(str, Len(str))
    IN  IF a > b THEN "" ELSE SubSeq(str, a, b)

\* The password handed to pdfplumber.open: password.strip() for a password
\* that is given ("" stands for None as well), none otherwise.
OpenPassword(u) == IF u.password # "" THEN Strip(u.password) ELSE ""

\* pdfplumber.open(pdf_bytes[, password]) returns: the bytes are a sound
\* document, and it is not encrypted or the password is its key.
Opens(u) == ~u.damaged /\ (u.key = "" \/ OpenPassword(u) = u.key)

PageLists == UNION { [1..n -> PageTexts] : n \in 0..MaxPages }

\* The uploads: contents are the bytes (their first characters), password the
\* form field, key the password the document is encrypted with ("" when it is
\* not encrypted), raised the exception of a failing open, pages_raised the
\* exception of pdf_doc.pages of a document that opens, pages what
\* extract_text gives page by page.
Uploads ==
    { u \in [contents : {"", "GIF89a", "%PDF-1.7"},
             password : {"", "secret", " secret ", "wrong"},
             key      : {"", "secret"},
             damaged  : BOOLEAN,
             raised   : EncryptionErrors \cup DamageErrors \cup {NoError},
             pages_raised : PagesErrors \cup {NoError},
             pages    : PageLists] :
        /\ u.contents # "%PDF-1.7" => u.damaged
        /\ u.damaged => u.key = ""
        /\ u.damaged => u.raised \in DamageErrors
        /\ (~u.damaged /\ ~Opens(u)) => u.raised \in EncryptionErrors
        /\ Opens(u) => u.raised = NoError
        /\ ~Opens(u) => u.pages_raised = NoError
        /\ (~Opens(u) \/ u.pages_raised # NoError) => u.pages = <<>> }

-----------------------------------------------------------------------------
(* calculate_confidence_scores and generate_analytics *)

\* The scores are written in hundredths: 95 is the 0.95 of the code.
\* sum(scores.values()) over the five entries, in the order of their insertion.
SumScores(scores) ==
    scores.card_last_four_digits + scores.billing_cycle + scores.payment_due_date
        + scores.total_balance + scores.transaction_info

\* calculate_confidence_scores with "Not found" for the sentinel.
calculate_confidence_scores_notfound(result) ==
    LET scores ==
            [card_last_four_digits |->
                IF result.card_last_four_digits # ""
                        /\ result.card_last_four_digits # "Not found" THEN 95 ELSE 0,
             billing_cycle |->
                IF result.billing_cycle.start_date # "Not found"
                        /\ result.billing_cycle.end_date # "Not found" THEN 90 ELSE 0,
             payment_due_date |->
                IF result.payment_due_date # "" /\ result.payment_due_date # "Not found"
                THEN 90 ELSE 0,
             total_balance |->
                IF result.total_balance # "" /\ result.total_balance # "Not found"
                THEN 95 ELSE 0,
             transaction_info |->
                IF result.transaction_info.transaction_count # "Not found"
                        \/ result.transaction_info.total_charges # "Not found"
                THEN 85 ELSE 0]
    IN  scores @@ [overall |-> SumScores(scores) \div Cardinality(DOMAIN scores)]

\* calculate_confidence_scores with an overall score that counts the found
\* groups only.
calculate_confidence_scores_foundonly(result) ==
    LET scores ==
            [card_last_four_digits |->
                IF result.card_last_four_digits # ""
                        /\ result.card_last_four_digits # "N/A" THEN 95 ELSE 0,
             billing_cycle |->
                IF result.billing_cycle.start_date # "N/A"
                        /\ result.billing_cycle.end_date # "N/A" THEN 90 ELSE 0,
             payment_due_date |->
                IF result.payment_due_date # "" /\ result.payment_due_date # "N/A"
                THEN 90 ELSE 0,
             total_balance |->
                IF result.total_balance # "" /\ result.total_balance # "N/A"
                THEN 95 ELSE 0,
             transaction_info |->
                IF result.transaction_info.transaction_count # "N/A"
                        \/ result.transaction_info.total_charges # "N/A"
                THEN 85 ELSE 0]
        found == Cardinality({ k \in DOMAIN scores : scores[k] > 0 })
    IN  scores @@ [overall |-> IF found = 0 THEN 0 ELSE SumScores(scores) \div found]

\* calculate_confidence_scores(result); result.get(key) of a missing key is
\* None, which is false as the empty string is; the billing cycle is a dict of
\* two entries, which is true; a missing transaction_info reads as {}, whose
\* get gives None, which differs from "N/A".
calculate_confidence_scores(result) ==
    LET scores ==
            [card_last_four_digits |->
                IF "card_last_four_digits" \in DOMAIN result
                        /\ result.card_last_four_digits # ""
                        /\ result.card_last_four_digits # "N/A" THEN 95 ELSE 0,
             billing_cycle |->
                IF "billing_cycle" \in DOMAIN result
                        /\ result.billing_cycle.start_date # "N/A"
                        /\ result.billing_cycle.end_date # "N/A" THEN 90 ELSE 0,
             payment_due_date |->
                IF "payment_due_date" \in DOMAIN result
                        /\ result.payment_due_date # ""
                        /\ result.payment_due_date # "N/A"
                THEN 90 ELSE 0,
             total_balance |->
                IF "total_balance" \in DOMAIN result
                        /\ result.total_balance # "" /\ result.total_balance # "N/A"
                THEN 95 ELSE 0,
             transaction_info |->
                IF "transaction_info" \notin DOMAIN result
                        \/ result.transaction_info.transaction_count # "N/A"
                        \/ result.transaction_info.total_charges # "N/A"
                THEN 85 ELSE 0]
    IN  scores @@ [overall |-> SumScores(scores) \div Cardinality(DOMAIN scores)]

Recommendation(type, message, priority) ==
    [type |-> type, message |-> message, priority |-> priority]

\* generate_analytics(result); current_balance in hundredths. An exception of
\* float() leaves the function through "except: pass" with nothing added.
generate_analytics(result) ==
    LET balance_str == IF "total_balance" \in DOMAIN result THEN result.total_balance
                       ELSE "N/A"
        stripped    == Remove(Remove(Remove(Remove(balance_str, "₹", 1), "$", 1), ",", 1),
                              " ", 1)
        current     == Hundredths(stripped)
        count       == IF "transaction_info" \in DOMAIN result
                       THEN result.transaction_info.transaction_count ELSE None
        tx_count    == ToNat(count, Len(count))
        by_balance  ==
            IF current > 500000
            THEN << Recommendation("high_balance",
                        "Consider making a larger payment to reduce interest charges",
                        "high") >>
            ELSE IF current > 200000
            THEN << Recommendation("moderate_balance",
                        "Consider paying more than the minimum to reduce debt faster",
                        "medium") >>
            ELSE <<>>
        by_count    ==
            IF count # "N/A" /\ count # None /\ tx_count > 30
            THEN << Recommendation("high_transaction_count",
                        "You have " \o ToString(tx_count)
                            \o " transactions this period. Review your spending patterns.",
                        "medium") >>
            ELSE <<>>
    IN  IF balance_str = "N/A" \/ ~ParsesAsFloat(stripped)
        THEN [spending_insights |-> <<>>, payment_recommendations |-> <<>>,
              trends |-> <<>>]
        ELSE [spending_insights |-> [current_balance |-> current],
              payment_recommendations |-> by_balance \o by_count,
              trends |-> <<>>]

-----------------------------------------------------------------------------
(* parse_statement, step by step *)

\* No record of a parse.
NoResult == [no_result |-> TRUE]

\* raise HTTPException(status_code, detail, headers)
HTTPException(status, detail, requires_password) ==
    [status |-> status, detail |-> detail, requires_password |-> requires_password,
     error |-> "", supported_issuers |-> <<>>, result |-> NoResult]

\* The rejection of a text of unknown issuer.
UnknownIssuerResponse ==
    [status |-> 400, detail |-> "", requires_password |-> FALSE,
     error |-> "Could not identify credit card issuer",
     supported_issuers |-> supported_issuers, result |-> NoResult]

\* return result
ResultResponse(result) ==
    [status |-> 200, detail |-> "", requires_password |-> FALSE,
     error |-> "", supported_issuers |-> <<>>, result |-> result]

\* The entry point has not answered yet.
Pending == HTTPException(0, "", FALSE)
PdfPending == [raised |-> NotRun, result |-> NoResult]
DebugPending ==
    [status |-> 0, error |-> "", pages |-> 0, text_length |-> 0,
     text_preview |-> "", detected_issuer |-> NotRun, found_keywords |-> <<>>,
     has_text |-> FALSE, extraction_results |-> NoResult]

\* is_password_error of the handler of a failing open
is_password_error(e) ==
    LET error_msg == Lower(e.msg)
    IN  \/ Contains(error_msg, "password")
        \/ Contains(error_msg, "encrypted")
        \/ Contains(error_msg, "decrypt")
        \/ Contains(error_msg, "file is encrypted")
        \/ e.type \in {"FileNotDecryptedError", "PasswordError", "PdfReadError"}
        \/ Contains(Lower(e.code), "password")

\* The detail of the handler of every other exception raised while the
\* document is opened and read.
ReadErrorDetail(e) ==
    IF Contains(Lower(e.msg), "corrupted") \/ Contains(Lower(e.msg), "invalid")
    THEN "PDF appears to be corrupted or invalid. Please verify the file."
    ELSE "Error reading PDF (" \o e.type \o "): " \o e.msg
            \o ". The PDF might be corrupted, encrypted, or in an unsupported format."

\* pdf_text after the loop over the pages from page i on: the text of every
\* page that has one, each followed by a newline; a page whose extract_text
\* raises is skipped.
RECURSIVE PdfText(_, _)
PdfText(pages, i) ==
    IF i > Len(pages) THEN ""
    ELSE (IF pages[i] \in {"", PageRaises} THEN "" ELSE pages[i] \o "\n")
            \o PdfText(pages, i + 1)

\* not pdf_text or len(pdf_text.strip()) == 0
Blank(str) == str = "" \/ Len(Strip(str)) = 0

\* An upload arrives at one of the entry points: parse_statement (whose first
\* step is the size check), parse_pdf or debug_pdf_info.
InitUpload ==
    /\ upload \in Uploads
    /\ response = [parse_statement |-> Pending, parse_pdf |-> PdfPending,
                   debug_pdf_info |-> DebugPending]
    /\ pc \in {"size", "parse_pdf", "debug_pdf_info"}
    /\ text = ""
    /\ issuer = NotRun
    /\ pass = 0
    /\ st_issuer = NotRun
    /\ card = NotRun
    /\ cycle = NotRunCycle
    /\ due = NotRun
    /\ balance = NotRun
    /\ txn = NotRunTxn
    /\ files = <<>>
    /\ results = <<>>
    /\ errors = <<>>
    /\ parses = <<>>
    /\ pdf_doc = NoDocument
    /\ calls = <<>>

\* The handler ends with response r.
Respond(r) ==
    /\ response' = [response EXCEPT !.parse_statement = r]
    /\ pc' = "done"

\* The handler goes on at position next.
Goto(next) ==
    /\ pc' = next
    /\ UNCHANGED response

\* What no step of parse_statement changes.
parse_statement_frame ==
    UNCHANGED <<st_issuer, card, cycle, due, balance, txn, upload, files, results,
                errors, parses, calls>>

\* if len(contents) == 0
ValidateSize ==
    /\ pc = "size"
    /\ IF Len(upload.contents) = 0
       THEN Respond(HTTPException(400, "PDF file is empty", FALSE))
       ELSE Goto("header")
    /\ UNCHANGED <<text, issuer, pass>>
    /\ UNCHANGED pdf_doc
    /\ parse_statement_frame

\* if contents[:4] != b'%PDF'
ValidateHeader ==
    /\ pc = "header"
    /\ IF Len(upload.contents) < 4 \/ SubSeq(upload.contents, 1, 4) # "%PDF"
       THEN Respond(HTTPException(400,
                "Invalid PDF file format. The file does not appear to be a valid PDF.",
                FALSE))
       ELSE Goto("open")
    /\ UNCHANGED <<text, issuer, pass>>
    /\ UNCHANGED pdf_doc
    /\ parse_statement_frame

\* pdfplumber.open and the handler of its exception
OpenPdf ==
    /\ pc = "open"
    /\ IF Opens(upload) THEN Goto("pages")
       ELSE IF is_password_error(upload.raised)
            THEN IF upload.password # ""
                 THEN Respond(HTTPException(401, "Incorrect password. Please try again.",
                                            TRUE))
                 ELSE Respond(HTTPException(401,
                                "PDF is password-protected. Password required.", TRUE))
            ELSE Respond(HTTPException(400, ReadErrorDetail(upload.raised), FALSE))
    /\ pdf_doc' = IF Opens(upload) THEN [opened |-> TRUE, closes |-> 0] ELSE pdf_doc
    /\ UNCHANGED <<text, issuer, pass>>
    /\ parse_statement_frame

\* pdf_doc.close()
ClosePdf(doc) == [doc EXCEPT !.closes = @ + 1]

\* CountPages rejecting a document without pages and leaving it open.
CountPages_unclosed ==
    /\ pc = "pages"
    /\ IF upload.pages_raised # NoError
       THEN /\ Respond(HTTPException(400, ReadErrorDetail(upload.pages_raised), FALSE))
            /\ pdf_doc' = IF pdf_doc.opened THEN ClosePdf(pdf_doc) ELSE pdf_doc
       ELSE IF Len(upload.pages) = 0
       THEN /\ Respond(HTTPException(400, "PDF has no pages or cannot be read.", FALSE))
            /\ UNCHANGED pdf_doc
       ELSE /\ Goto("extract")
            /\ UNCHANGED pdf_doc
    /\ UNCHANGED <<text, issuer, pass>>
    /\ parse_statement_frame

\* page_count = len(pdf_doc.pages); if page_count == 0.  An exception of
\* pdf_doc.pages goes to the handler of the exceptions after opening, which
\* closes the document if there is one.
CountPages ==
    /\ pc = "pages"
    /\ IF upload.pages_raised # NoError
       THEN /\ Respond(HTTPException(400, ReadErrorDetail(upload.pages_raised), FALSE))
            /\ pdf_doc' = IF pdf_doc.opened THEN ClosePdf(pdf_doc) ELSE pdf_doc
       ELSE IF Len(upload.pages) = 0
       THEN /\ Respond(HTTPException(400, "PDF has no pages or cannot be read.", FALSE))
            /\ pdf_doc' = ClosePdf(pdf_doc)
       ELSE /\ Goto("extract")
            /\ UNCHANGED pdf_doc
    /\ UNCHANGED <<text, issuer, pass>>
    /\ parse_statement_frame

\* the loop over the pages, and pdf_doc.close() after it
ExtractText ==
    /\ pc = "extract"
    /\ text' = PdfText(upload.pages, 1)
    /\ pdf_doc' = ClosePdf(pdf_doc)
    /\ Goto("text")
    /\ UNCHANGED <<issuer, pass>>
    /\ parse_statement_frame

\* if not pdf_text or len(pdf_text.strip()) == 0
CheckText ==
    /\ pc = "text"
    /\ IF Blank(text)
       THEN Respond(HTTPException(400,
                "Could not extract text from PDF. The PDF might be image-based (scanned) or encrypted. Please ensure the PDF contains selectable text.",
                FALSE))
       ELSE Goto("detect")
    /\ UNCHANGED <<text, issuer, pass>>
    /\ UNCHANGED pdf_doc
    /\ parse_statement_frame

\* issuer = detect_issuer(pdf_text); if issuer == "unknown"
Detect ==
    /\ pc = "detect"
    /\ issuer' = detect_issuer(text).tag
    /\ pass' = detect_issuer(text).pass
    /\ IF issuer' = "unknown" THEN Respond(UnknownIssuerResponse) ELSE Goto("parse")
    /\ UNCHANGED text
    /\ UNCHANGED pdf_doc
    /\ parse_statement_frame

\* parser = PARSERS.get(issuer); result = parser.parse(pdf_text, contents);
\* result["detected_issuer"], ["confidence_scores"], ["extraction_metadata"]
\* (without extracted_at, the time of the clock), ["analytics"]; return result
Parse ==
    /\ pc = "parse"
    /\ LET parser == Get(PARSERS, issuer)
       IN  IF parser = None
           THEN Respond(HTTPException(400, "Parser not found for issuer: " \o issuer,
                                      FALSE))
           ELSE \E result \in {parse(parser, text)
                                @@ [detected_issuer |-> DisplayName(issuer)]} :
                \E scored \in {[confidence_scores |-> calculate_confidence_scores(result)]
                                @@ result} :
                    Respond(ResultResponse(
                        [extraction_metadata |-> [pdf_pages |-> Len(upload.pages),
                                                  text_length |-> Len(text)],
                         analytics |-> generate_analytics(scored)] @@ scored))
    /\ UNCHANGED <<text, issuer, pass>>
    /\ UNCHANGED pdf_doc
    /\ parse_statement_frame

NextParseStatement ==
    \/ ValidateSize
    \/ ValidateHeader
    \/ OpenPdf
    \/ CountPages
    \/ ExtractText
    \/ CheckText
    \/ Detect
    \/ Parse

-----------------------------------------------------------------------------
(* parse_pdf of streamlit_app.py and debug_pdf_info, each as one step *)

\* str(e) of the exception of a page whose extract_text raises.
PageErrorMessage == "extract_text failed"

AnyPageRaises(pages) == \E i \in 1..Len(pages) : pages[i] = PageRaises

\* ', '.join(names)
RECURSIVE CommaJoin(_)
CommaJoin(names) ==
    IF names = <<>> THEN ""
    ELSE IF Len(names) = 1 THEN names[1]
    ELSE names[1] \o ", " \o CommaJoin(Tail(names))

\* parse_pdf raises Exception("Error parsing PDF: " + str(e)) for every
\* exception raised inside it.
PdfRaised(msg) == [raised |-> "Error parsing PDF: " \o msg, result |-> NoResult]

PdfReturned(result) == [raised |-> None, result |-> result]

parse_pdf(u) ==
    LET pdf_text == PdfText(u.pages, 1)
        tag      == st_detect_issuer(pdf_text)
        parser   == Get(PARSERS, tag)
    IN  IF ~Opens(u) THEN PdfRaised(u.raised.msg)
        ELSE IF u.pages_raised # NoError THEN PdfRaised(u.pages_raised.msg)
        ELSE IF AnyPageRaises(u.pages) THEN PdfRaised(PageErrorMessage)
        ELSE IF Blank(pdf_text)
        THEN PdfRaised("Could not extract text from PDF. The PDF might be image-based (scanned) or encrypted.")
        ELSE IF tag = "unknown"
        THEN PdfRaised("Could not identify credit card issuer. Supported issuers: "
                        \o CommaJoin(SUPPORTED_BANKS))
        ELSE IF parser = None THEN PdfRaised("Parser not found for issuer: " \o tag)
        ELSE CHOOSE returned \in
                { PdfReturned([extraction_metadata |-> [text_length |-> Len(pdf_text)],
                               analytics |-> generate_analytics(scored)] @@ scored) :
                    scored \in
                        { [confidence_scores |-> calculate_confidence_scores(result)]
                            @@ result :
                          result \in { parse(parser, pdf_text)
                                        @@ [detected_issuer |-> DisplayName(tag)] } } } :
                TRUE

ParsePdf ==
    /\ pc = "parse_pdf"
    /\ pc' = "done"
    /\ response' = [response EXCEPT !.parse_pdf = parse_pdf(upload)]
    /\ UNCHANGED <<text, issuer, pass>>
    /\ UNCHANGED pdf_doc
    /\ parse_statement_frame

\* pdf_text of debug_pdf_info: every page adds its text, or nothing, and a
\* newline.
RECURSIVE DebugText(_, _)
DebugText(pages, i) ==
    IF i > Len(pages) THEN "" ELSE pages[i] \o "\n" \o DebugText(pages, i + 1)

all_keywords ==
    <<"hdfc", "icici", "sbi", "state bank", "axis", "kotak", "dcb",
      "development credit", "yes bank", "indusind", "onecard", "one card">>

\* JSONResponse(status_code, content={"error": ...})
DebugError(status, error) == [DebugPending EXCEPT !.status = status, !.error = error]

\* The class whose extract methods debug_pdf_info calls: the first subclass of
\* CreditCardParser.  The methods are those of the base class.
test_parser == "HDFCParser"

debug_pdf_info(u) ==
    LET pdf_text == DebugText(u.pages, 1)
        tl       == Lower(pdf_text)
    IN  IF ~Opens(u) THEN DebugError(400, "Failed to open PDF: " \o u.raised.msg)
        ELSE IF u.pages_raised # NoError THEN DebugError(500, u.pages_raised.msg)
        ELSE IF AnyPageRaises(u.pages) THEN DebugError(500, PageErrorMessage)
        ELSE [status |-> 200, error |-> "",
              pages |-> Len(u.pages),
              text_length |-> Len(pdf_text),
              text_preview |-> IF pdf_text # "" THEN pdf_text ELSE "No text extracted",
              detected_issuer |-> detect_issuer(pdf_text).tag,
              found_keywords |-> SelectSeq(all_keywords, LAMBDA k : Contains(tl, k)),
              has_text |-> Len(Strip(pdf_text)) > 0,
              extraction_results |->
                  [card_last_four |-> extract_last_four_digits(pdf_text),
                   billing_cycle |-> extract_billing_cycle(pdf_text),
                   payment_due_date |-> extract_payment_due_date(pdf_text),
                   total_balance |-> extract_total_balance(pdf_text),
                   transaction_info |-> extract_transaction_info(pdf_text)]]

DebugPdfInfo ==
    /\ pc = "debug_pdf_info"
    /\ pc' = "done"
    /\ response' = [response EXCEPT !.debug_pdf_info = debug_pdf_info(upload)]
    /\ UNCHANGED <<text, issuer, pass>>
    /\ UNCHANGED pdf_doc
    /\ parse_statement_frame

NextUpload == NextParseStatement \/ ParsePdf \/ DebugPdfInfo

SpecUpload == InitUpload /\ [][NextUpload]_vars

-----------------------------------------------------------------------------
(* parse_batch: one step for every file of the list *)

\* Largest number of files in one batch.
MaxFiles == 3

\* A file of a batch: its name and what pdfplumber makes of its bytes.
BatchFile(filename, key, damaged, raised, pages) ==
    [filename |-> filename, contents |-> "%PDF-1.7", password |-> "", key |-> key,
     damaged |-> damaged, raised |-> raised, pages_raised |-> NoError, pages |-> pages]

BatchFiles ==
    { BatchFile("damaged.pdf", "", TRUE,
                OpenError("PDFSyntaxError", "No /Root object! - Is this really a PDF?"), <<>>),
      BatchFile("locked.pdf", "secret", FALSE, OpenError("PDFPasswordIncorrect", ""), <<>>),
      BatchFile("scan.pdf", "", FALSE, NoError, <<"">>),
      BatchFile("space.pdf", "", FALSE, NoError, <<" ">>),
      BatchFile("receipt.pdf", "", FALSE, NoError, <<"Receipt Rs. 12">>),
      BatchFile("hdfc.pdf", "", FALSE, NoError, <<"HDFC Bank XXXX 4532", "Total Balance: $2,456.78">>),
      BatchFile("torn.pdf", "", FALSE, NoError, <<"Yes Bank Pay by 20/02/2024", PageRaises>>) }

\* pdf_text of parse_batch: the texts of the pages one after the other.
RECURSIVE BatchText(_, _)
BatchText(pages, i) ==
    IF i > Len(pages) THEN "" ELSE pages[i] \o BatchText(pages, i + 1)

BatchError(file, error) == [filename |-> file.filename, error |-> error]

\* The body of the loop for one file: the entry it appends and the list it
\* appends it to ("none" where the body ends without an entry).
batch_entry(file) ==
    LET pdf_text == BatchText(file.pages, 1)
        tag      == detect_issuer(pdf_text).tag
        parser   == Get(PARSERS, tag)
    IN  IF ~Opens(file)
        THEN [list |-> "errors", entry |-> BatchError(file, file.raised.msg)]
        ELSE IF AnyPageRaises(file.pages)
        THEN [list |-> "errors", entry |-> BatchError(file, PageErrorMessage)]
        ELSE IF pdf_text = ""
        THEN [list |-> "errors", entry |-> BatchError(file, "Could not extract text")]
        ELSE IF tag = "unknown"
        THEN [list |-> "errors", entry |-> BatchError(file, "Unknown issuer")]
        ELSE IF parser = None
        THEN [list |-> "none", entry |-> NoResult]
        ELSE CHOOSE out \in
                { [list |-> "results",
                   entry |-> [confidence_scores |-> calculate_confidence_scores(result)]
                                @@ result] :
                    result \in { parse(parser, pdf_text)
                                  @@ [detected_issuer |-> DisplayName(tag),
                                      filename |-> file.filename] } } :
                TRUE

\* parse_batch has not returned yet.
BatchPending == [successful |-> 0, failed |-> 0, results |-> <<>>, errors |-> <<>>]

InitBatch ==
    /\ upload \in UNION { [1..n -> BatchFiles] : n \in 0..MaxFiles }
    /\ files = upload
    /\ results = <<>>
    /\ errors = <<>>
    /\ response = BatchPending
    /\ pc = "batch"
    /\ text = ""
    /\ issuer = NotRun
    /\ pass = 0
    /\ st_issuer = NotRun
    /\ card = NotRun
    /\ cycle = NotRunCycle
    /\ due = NotRun
    /\ balance = NotRun
    /\ txn = NotRunTxn
    /\ parses = <<>>
    /\ pdf_doc = NoDocument
    /\ calls = <<>>

\* What no step of parse_batch changes.
parse_batch_frame ==
    UNCHANGED <<text, issuer, pass, st_issuer, card, cycle, due, balance, txn, upload,
                parses, pdf_doc, calls>>

\* One turn of the loop without its try/except: an exception ends the loop,
\* and the request.
ProcessFile_unguarded ==
    /\ pc = "batch"
    /\ files # <<>>
    /\ \E file \in {Head(files)}, out \in {batch_entry(Head(files))},
          raises \in {~Opens(Head(files)) \/ AnyPageRaises(Head(files).pages)} :
           /\ results' = IF out.list = "results" THEN Append(results, out.entry) ELSE results
           /\ errors' = IF out.list = "errors" /\ ~raises
                         THEN Append(errors, out.entry) ELSE errors
           /\ files' = IF raises THEN <<>> ELSE Tail(files)
    /\ UNCHANGED <<pc, response>>
    /\ parse_batch_frame

\* One turn of the loop: for file in files
ProcessFile ==
    /\ pc = "batch"
    /\ files # <<>>
    /\ \E out \in {batch_entry(Head(files))} :
           /\ results' = IF out.list = "results" THEN Append(results, out.entry) ELSE results
           /\ errors' = IF out.list = "errors" THEN Append(errors, out.entry) ELSE errors
    /\ files' = Tail(files)
    /\ UNCHANGED <<pc, response>>
    /\ parse_batch_frame

\* return {"successful": ..., "failed": ..., "results": ..., "errors": ...}
ReturnBatch ==
    /\ pc = "batch"
    /\ files = <<>>
    /\ response' = [successful |-> Len(results), failed |-> Len(errors),
                    results |-> results, errors |-> errors]
    /\ pc' = "done"
    /\ UNCHANGED <<files, results, errors>>
    /\ parse_batch_frame

NextBatch == ProcessFile \/ ReturnBatch

SpecBatch == InitBatch /\ [][NextBatch]_vars

-----------------------------------------------------------------------------
(* Parses that run at the same time *)

\* The number of parses in flight.
MaxParses == 2

ConcurrentTexts ==
    { "HDFC Bank XXXX 4532", "Yes Bank Pay by 20/02/2024",
      "Axis Total Balance: $2,456.78 5 transactions", "Receipt Rs. 12" }

\* The frame of one call: its argument and its local variables. PARSERS and
\* the parser objects in it are shared by the calls; no method assigns to
\* them, so they are the definition PARSERS and no variable.
Call(pdf_text) ==
    [pdf_text |-> pdf_text, pc |-> "detect", issuer |-> NotRun, card |-> NotRun,
     cycle |-> NotRunCycle, due |-> NotRun, balance |-> NotRun, txn |-> NotRunTxn,
     result |-> NoResult]

InitConcurrent ==
    /\ parses \in { [p \in 1..MaxParses |-> Call(texts[p])] :
                        texts \in [1..MaxParses -> ConcurrentTexts] }
    /\ pc = "concurrent"
    /\ text = ""
    /\ issuer = NotRun
    /\ pass = 0
    /\ st_issuer = NotRun
    /\ card = NotRun
    /\ cycle = NotRunCycle
    /\ due = NotRun
    /\ balance = NotRun
    /\ txn = NotRunTxn
    /\ upload = NoUpload
    /\ response = NoResponse
    /\ files = <<>>
    /\ results = <<>>
    /\ errors = <<>>
    /\ pdf_doc = NoDocument
    /\ calls = <<>>

\* What no step of a parse changes.
concurrent_frame ==
    UNCHANGED <<text, issuer, pass, st_issuer, pc, card, cycle, due, balance, txn, upload,
                response, files, results, errors, pdf_doc, calls>>

\* A step that reads the text of the first call in place of its own.
Argument_shared(p) == parses[1].pdf_text

\* The text a step of call p reads: the parameter of its own call.
Argument(p) == parses[p].pdf_text

\* Call p assigns to local variables of its own and goes on.
Assign(p, assigned) ==
    /\ parses' = [parses EXCEPT ![p] = assigned @@ parses[p]]
    /\ concurrent_frame

\* issuer = detect_issuer(pdf_text), and the rejection of "unknown"
DetectStep(p) ==
    /\ parses[p].pc = "detect"
    /\ \E tag \in {detect_issuer(Argument(p)).tag} :
           Assign(p, [issuer |-> tag,
                      pc |-> IF tag = "unknown" \/ Get(PARSERS, tag) = None
                             THEN "done" ELSE "card"])

CardStep(p) ==
    /\ parses[p].pc = "card"
    /\ Assign(p, [card |-> extract_last_four_digits(Argument(p)), pc |-> "cycle"])

CycleStep(p) ==
    /\ parses[p].pc = "cycle"
    /\ Assign(p, [cycle |-> extract_billing_cycle(Argument(p)), pc |-> "due"])

DueStep(p) ==
    /\ parses[p].pc = "due"
    /\ Assign(p, [due |-> extract_payment_due_date(Argument(p)), pc |-> "balance"])

BalanceStep(p) ==
    /\ parses[p].pc = "balance"
    /\ Assign(p, [balance |-> extract_total_balance(Argument(p)), pc |-> "txn"])

TxnStep(p) ==
    /\ parses[p].pc = "txn"
    /\ Assign(p, [txn |-> extract_transaction_info(Argument(p)), pc |-> "return"])

\* return {...} of parse, and result["detected_issuer"] of the caller
ReturnStep(p) ==
    /\ parses[p].pc = "return"
    /\ Assign(p, [result |-> [issuer |-> ParserIssuer[Get(PARSERS, parses[p].issuer)],
                              card_last_four_digits |-> parses[p].card,
                              billing_cycle |-> parses[p].cycle,
                              payment_due_date |-> parses[p].due,
                              total_balance |-> parses[p].balance,
                              transaction_info |-> parses[p].txn,
                              detected_issuer |-> DisplayName(parses[p].issuer)],
                  pc |-> "done"])

NextConcurrent ==
    \E p \in 1..MaxParses :
        \/ DetectStep(p)
        \/ CardStep(p)
        \/ CycleStep(p)
        \/ DueStep(p)
        \/ BalanceStep(p)
        \/ TxnStep(p)
        \/ ReturnStep(p)

SpecConcurrent == InitConcurrent /\ [][NextConcurrent]_vars

-----------------------------------------------------------------------------
(* Calls of the core, one after the other *)

\* The number of calls made in a row.
MaxCalls == 3

CallTexts == { "HDFC XXXX 4532 Pay by 20/02/2024", "Axis Rs. 5,000 25 transactions" }

Operations ==
    { "detect_issuer", "extract_last_four_digits", "extract_billing_cycle",
      "extract_payment_due_date", "extract_total_balance", "extract_transaction_info" }

\* The texts of the first n calls, one after the other.
RECURSIVE SeenTexts(_)
SeenTexts(n) == IF n = 0 THEN "" ELSE SeenTexts(n - 1) \o calls[n].text \o " "

\* An operation that appends its argument to a text kept by the module
\* (a mutable default argument) and works on all of it.
Invoke_accumulating(op, t) ==
    LET seen == SeenTexts(Len(calls)) \o t
    IN  CASE op = "detect_issuer" -> detect_issuer(seen).tag
          [] op = "extract_last_four_digits" -> extract_last_four_digits(seen)
          [] op = "extract_billing_cycle" -> extract_billing_cycle(seen)
          [] op = "extract_payment_due_date" -> extract_payment_due_date(seen)
          [] op = "extract_total_balance" -> extract_total_balance(seen)
          [] op = "extract_transaction_info" -> extract_transaction_info(seen)

\* The value a call of an operation of the core returns: it is computed from
\* the argument alone.
Invoke(op, t) ==
    CASE op = "detect_issuer" -> detect_issuer(t).tag
      [] op = "extract_last_four_digits" -> extract_last_four_digits(t)
      [] op = "extract_billing_cycle" -> extract_billing_cycle(t)
      [] op = "extract_payment_due_date" -> extract_payment_due_date(t)
      [] op = "extract_total_balance" -> extract_total_balance(t)
      [] op = "extract_transaction_info" -> extract_transaction_info(t)

InitCalls ==
    /\ calls = <<>>
    /\ pc = "calls"
    /\ text = ""
    /\ issuer = NotRun
    /\ pass = 0
    /\ st_issuer = NotRun
    /\ card = NotRun
    /\ cycle = NotRunCycle
    /\ due = NotRun
    /\ balance = NotRun
    /\ txn = NotRunTxn
    /\ upload = NoUpload
    /\ response = NoResponse
    /\ files = <<>>
    /\ results = <<>>
    /\ errors = <<>>
    /\ parses = <<>>
    /\ pdf_doc = NoDocument

\* One call of an operation on a text.
CallOperation ==
    /\ pc = "calls"
    /\ Len(calls) < MaxCalls
    /\ \E op \in Operations, t \in CallTexts :
           \E result \in {Invoke(op, t)} :
               calls' = Append(calls, [op |-> op, text |-> t, result |-> result])
    /\ UNCHANGED <<text, issuer, pass, st_issuer, pc, card, cycle, due, balance, txn, upload,
                   response, files, results, errors, parses, pdf_doc>>

NextCalls == CallOperation

SpecCalls == InitCalls /\ [][NextCalls]_vars

-----------------------------------------------------------------------------
(* The scores and the analytics of one record *)

\* The records parse can return, by the value of each entry: found or not,
\* balances on either side of the two thresholds, counts on either side of 30.
ScoreResults ==
    [issuer : {"HDFC Bank"},
     card_last_four_digits : {Sentinel, "4532"},
     billing_cycle : { [start_date |-> Sentinel, end_date |-> Sentinel],
                       [start_date |-> "01/01/2024", end_date |-> "01/31/2024"] },
     payment_due_date : {Sentinel, "20/02/2024"},
     total_balance : {Sentinel, "₹2,000.00", "₹2,000.01", "₹5,000.00", "₹5,000.01"},
     transaction_info : [transaction_count : {Sentinel, "30", "31"},
                         total_charges : {Sentinel, "₹1,992.28"}],
     detected_issuer : {"HDFC Bank"}]

InitScores ==
    /\ response \in ScoreResults
    /\ pc = "confidence_scores"
    /\ text = ""
    /\ issuer = NotRun
    /\ pass = 0
    /\ st_issuer = NotRun
    /\ card = NotRun
    /\ cycle = NotRunCycle
    /\ due = NotRun
    /\ balance = NotRun
    /\ txn = NotRunTxn
    /\ upload = NoUpload
    /\ files = <<>>
    /\ results = <<>>
    /\ errors = <<>>
    /\ parses = <<>>
    /\ pdf_doc = NoDocument
    /\ calls = <<>>

scores_frame ==
    UNCHANGED <<text, issuer, pass, st_issuer, card, cycle, due, balance, txn, upload,
                files, results, errors, parses, pdf_doc, calls>>

\* result["confidence_scores"] = calculate_confidence_scores(result)
CalculateConfidenceScores ==
    /\ pc = "confidence_scores"
    /\ response' = [confidence_scores |-> calculate_confidence_scores(response)] @@ response
    /\ pc' = "analytics"
    /\ scores_frame

\* result["analytics"] = generate_analytics(result)
GenerateAnalytics ==
    /\ pc = "analytics"
    /\ response' = [analytics |-> generate_analytics(response)] @@ response
    /\ pc' = "done"
    /\ scores_frame

NextScores == CalculateConfidenceScores \/ GenerateAnalytics

SpecScores == InitScores /\ [][NextScores]_vars

-----------------------------------------------------------------------------
(* One text parsed by the parser of every issuer *)

ParserClasses == DOMAIN ParserIssuer

ProfileTexts ==
    { "XXXX 4532 Pay by 20/02/2024", "Rs. 5,000 25 transactions",
      "from 1/3/2024 to 31/3/2024", "Account" }

InitProfiles ==
    /\ text \in ProfileTexts
    /\ parses = <<>>
    /\ pc = "profiles"
    /\ issuer = NotRun
    /\ pass = 0
    /\ st_issuer = NotRun
    /\ card = NotRun
    /\ cycle = NotRunCycle
    /\ due = NotRun
    /\ balance = NotRun
    /\ txn = NotRunTxn
    /\ upload = NoUpload
    /\ response = NoResponse
    /\ files = <<>>
    /\ results = <<>>
    /\ errors = <<>>
    /\ pdf_doc = NoDocument
    /\ calls = <<>>

\* parser.parse(text, pdf_bytes) of one class that has not parsed the text yet
ParseWith ==
    /\ pc = "profiles"
    /\ \E parser \in ParserClasses \ DOMAIN parses :
           \E result \in {parse(parser, text)} :
               parses' = parses @@ (parser :> result)
    /\ UNCHANGED <<text, issuer, pass, st_issuer, pc, card, cycle, due, balance, txn, upload,
                   response, files, results, errors, pdf_doc, calls>>

NextProfiles == ParseWith

SpecProfiles == InitProfiles /\ [][NextProfiles]_vars

-----------------------------------------------------------------------------
(* Properties of the classifier *)

IssuerTags == {"dcb", "hdfc", "icici", "sbi", "axis", "kotak", "yes bank",
               "indusind", "onecard", "unknown"}

Issuers == IssuerTags \ {"unknown"}

Classified == issuer # NotRun

\* Position of an issuer in the order of the chains.
OrderOf(tag) == CHOOSE i \in 1..Len(IssuerOrder) : IssuerOrder[i] = tag

\* The text holds the full institutional phrase of the issuer.
FullPhrase(tag, tl) ==
    CASE tag = "dcb"      -> Contains(tl, "development credit bank") \/ Contains(tl, "dcb bank")
      [] tag = "hdfc"     -> Contains(tl, "hdfc bank")
      [] tag = "icici"    -> Contains(tl, "icici bank")
      [] tag = "sbi"      -> Contains(tl, "state bank of india")
      [] tag = "axis"     -> Contains(tl, "axis bank")
      [] tag = "kotak"    -> Contains(tl, "kotak mahindra bank")
      [] tag = "yes bank" -> Contains(tl, "yes bank")
      [] tag = "indusind" -> Contains(tl, "indusind bank")
      [] tag = "onecard"  -> Contains(tl, "onecard") \/ Contains(tl, "one card")

\* The text holds a phrase or keyword of the issuer.
AnyKeyword(tag, tl) ==
    CASE tag = "dcb"      -> Contains(tl, "development credit bank") \/ Contains(tl, "dcb")
      [] tag = "hdfc"     -> Contains(tl, "hdfc")
      [] tag = "icici"    -> Contains(tl, "icici")
      [] tag = "sbi"      -> Contains(tl, "state bank of india") \/ Contains(tl, "sbi")
      [] tag = "axis"     -> Contains(tl, "axis")
      [] tag = "kotak"    -> Contains(tl, "kotak")
      [] tag = "yes bank" -> Contains(tl, "yes bank")
      [] tag = "indusind" -> Contains(tl, "indusind")
      [] tag = "onecard"  -> Contains(tl, "onecard") \/ Contains(tl, "one card")

\* C1: a text that holds the bare keyword "hdfc" together with the exclusion
\* phrase "housing development finance", and not "hdfc bank", is never
\* classified as "hdfc".
C1_ExclusionNeverHdfc ==
    LET tl == Lower(text)
    IN  (/\ Classified
         /\ Contains(tl, "hdfc")
         /\ Contains(tl, "housing development finance")
         /\ ~Contains(tl, "hdfc bank"))
        => issuer # "hdfc"

\* C2: detect_issuer (both copies) returns, for every text, one value of the
\* closed set of nine issuer tags and "unknown".
C2_DetectTotal ==
    /\ Classified => issuer \in IssuerTags
    /\ st_issuer # NotRun => st_issuer \in IssuerTags

C2_Witness == issuer = "unknown" /\ st_issuer = "unknown" /\ text # ""

\* C3: a text that holds the full institutional phrase of issuer I and no
\* phrase or keyword of any other issuer is classified as I.
C3_FullPhraseClassified ==
    LET tl == Lower(text)
    IN  \A I \in Issuers :
            (/\ Classified
             /\ FullPhrase(I, tl)
             /\ \A J \in Issuers \ {I} : ~AnyKeyword(J, tl))
            => issuer = I

C3_Witness ==
    LET tl == Lower(text)
    IN  /\ issuer = "yes bank"
        /\ FullPhrase("yes bank", tl)
        /\ \A J \in Issuers \ {"yes bank"} : ~AnyKeyword(J, tl)

\* C4: a text that holds none of the issuer phrases or keywords is classified
\* "unknown", also when "yes" and "bank" occur apart from each other.
C4_NoKeywordUnknown ==
    LET tl == Lower(text)
    IN  (Classified /\ \A J \in Issuers : ~AnyKeyword(J, tl)) => issuer = "unknown"

\* The issuers whose predicate holds in the pass that returned.
Holding(p, tl) ==
    { I \in Issuers : IF p = 1 THEN Pass1Pred(I, tl) ELSE Pass2Pred(I, tl) }

\* C5: within the pass that returns, the issuer returned is the earliest one
\* in the fixed order whose predicate holds, wherever the phrases stand.
C5_FirstRuleWins ==
    LET tl == Lower(text)
    IN  (Classified /\ pass \in {1, 2}) =>
            /\ issuer \in Holding(pass, tl)
            /\ \A J \in Holding(pass, tl) : OrderOf(issuer) <= OrderOf(J)

\* Two phrase rules hold and the phrase of the later issuer stands first.
C5_Witness ==
    /\ text = "Axis Bank ICICI Bank"
    /\ issuer = "icici"
    /\ Cardinality(Holding(1, Lower(text))) >= 2

\* C6: when some pass-1 predicate holds, the result is the pass-1 winner, even
\* if the loose keyword of an issuer earlier in the order is present.
C6_Pass1BeforePass2 ==
    LET tl == Lower(text)
    IN  (Classified /\ Holding(1, tl) # {}) =>
            /\ pass = 1
            /\ issuer \in Holding(1, tl)
            /\ \A J \in Holding(1, tl) : OrderOf(issuer) <= OrderOf(J)

\* Bare "dcb" together with "yes bank".
C6_Witness ==
    LET tl == Lower(text)
    IN  /\ issuer = "yes bank"
        /\ pass = 1
        /\ Pass2Pred("dcb", tl)
        /\ ~Pass1Pred("dcb", tl)

-----------------------------------------------------------------------------
(* Properties of the extractor *)

\* All five operations have been applied to the text; their results stay as
\* they are from then on.
Extracted == pc = "done"


\* The rules of each field in the order in which its operation tries them,
\* each with its re.IGNORECASE flag.
WithFlag(patterns, flag) ==
    [i \in 1..Len(patterns) |-> [pat |-> patterns[i], ic |-> flag]]

CardRules ==
    WithFlag(card_patterns, TRUE)
        \o << [pat |-> card_pattern, ic |-> FALSE], [pat |-> indian_pattern, ic |-> TRUE] >>
CycleRules   == WithFlag(cycle_patterns, TRUE)
DueRules     == WithFlag(due_patterns, TRUE)
BalanceRules == WithFlag(balance_patterns, TRUE)
CountRules   == WithFlag(count_patterns, TRUE)
ChargeRules  == WithFlag(charge_patterns, TRUE)

RuleMatch(rules, i, t) ==
    Search(rules[i].pat, t, IF rules[i].ic THEN Lower(t) ELSE t)

\* The rules that match the text.
Matching(rules, t) == { i \in 1..Len(rules) : RuleMatch(rules, i, t).ok }

\* The rules that match the text with a capture that parses as a number.
MatchingParsed(rules, t) ==
    { i \in Matching(rules, t) :
        ParsesAsFloat(StripSeparators(RuleMatch(rules, i, t).g[1])) }

Earliest(S) == CHOOSE i \in S : \A j \in S : i <= j

\* C7: an operation none of whose rules matches the text returns the sentinel
\* in every field.
C7_NoRuleSentinel ==
    /\ (Extracted /\ Matching(CardRules, text) = {}) => card = Sentinel
    /\ (Extracted /\ Matching(CycleRules, text) = {}) =>
            cycle = [start_date |-> Sentinel, end_date |-> Sentinel]
    /\ (Extracted /\ Matching(DueRules, text) = {}) => due = Sentinel
    /\ (Extracted /\ Matching(BalanceRules, text) = {}) => balance = Sentinel
    /\ (Extracted /\ Matching(CountRules, text) = {}) =>
            txn.transaction_count = Sentinel
    /\ (Extracted /\ Matching(ChargeRules, text) = {}) =>
            txn.total_charges = Sentinel

\* A non-empty text that no rule of any of the five operations matches.
C7_Witness ==
    /\ pc = "done"
    /\ text # ""
    /\ \A rules \in {CardRules, CycleRules, DueRules, BalanceRules, CountRules, ChargeRules} :
            Matching(rules, text) = {}
    /\ card = Sentinel /\ due = Sentinel /\ balance = Sentinel
    /\ cycle.start_date = Sentinel /\ cycle.end_date = Sentinel
    /\ txn.transaction_count = Sentinel /\ txn.total_charges = Sentinel

\* A run of at least four masking characters, the word "ending", or a 16-digit
\* number in four groups.
HasAnchor(t) ==
    LET tl == Lower(t)
    IN  \/ Contains(tl, "ending")
        \/ \E i \in 1..(Len(tl) - 3) : \A j \in i..(i + 3) : Char(tl, j) \in Mask
        \/ Search(card_pattern, t, t).ok

\* The text holds a number of exactly four digits.
HasFourDigits(t) == Search(WB \o Rep(Digit, 4, 4) \o WB, t, t).ok

\* C8: a text that holds a 4-digit number and no contextual anchor yields the
\* sentinel as card suffix.
C8_NoAnchorNoSuffix ==
    (Extracted /\ HasFourDigits(text) /\ ~HasAnchor(text)) => card = Sentinel

\* A date-like token: 1-2 digits, separator, 1-2 digits, separator, 2-4 digits.
IsDateToken(str) ==
    \E i \in 2..3 : \E j \in (i + 2)..(i + 3) :
        /\ j < Len(str)
        /\ Len(str) - j \in 2..4
        /\ Char(str, i) \in DateSep
        /\ Char(str, j) \in DateSep
        /\ AllDigits(SubSeq(str, 1, i - 1))
        /\ AllDigits(SubSeq(str, i + 1, j - 1))
        /\ AllDigits(SubSeq(str, j + 1, Len(str)))

\* No "to", no "through" and no dash standing between white space.
NoConnector(t) ==
    LET tl == Lower(t)
    IN  /\ ~Contains(tl, "to")
        /\ ~Contains(tl, "through")
        /\ ~\E i \in 2..(Len(tl) - 1) :
                Char(tl, i) = "-" /\ Char(tl, i - 1) \in Space /\ Char(tl, i + 1) \in Space

\* C9: the billing cycle is the sentinel pair or a pair of date tokens, and a
\* text without a range connector yields the sentinel pair.
C9_BothOrNeither ==
    Extracted =>
        /\ \/ cycle = [start_date |-> Sentinel, end_date |-> Sentinel]
           \/ IsDateToken(cycle.start_date) /\ IsDateToken(cycle.end_date)
        /\ NoConnector(text) => cycle = [start_date |-> Sentinel, end_date |-> Sentinel]

\* A text with a date and no range connector.
C9_Witness ==
    /\ Extracted
    /\ cycle = [start_date |-> Sentinel, end_date |-> Sentinel]
    /\ Search(Date, text, text).ok
    /\ NoConnector(text)

\* The value an amount operation derives from the capture of rule i.
AmountOf(rules, i, t) == FormatAmount(StripSeparators(RuleMatch(rules, i, t).g[1]))

\* When two rules match, the result of an amount operation is the normalised
\* capture of the earlier-listed one.
EarliestAmount(rules, t, value) ==
    Cardinality(Matching(rules, t)) >= 2 =>
        LET i == Earliest(Matching(rules, t))
        IN  /\ i \in MatchingParsed(rules, t)
            /\ value = AmountOf(rules, i, t)

\* The result of an amount operation is the normalised capture of the
\* earliest-listed rule that matches and whose capture parses as a number, and
\* the sentinel when there is no such rule.
EarliestParsedAmount(rules, t, value) ==
    IF MatchingParsed(rules, t) = {} THEN value = Sentinel
    ELSE value = AmountOf(rules, Earliest(MatchingParsed(rules, t)), t)

\* The result of a plain operation is the capture of its earliest-listed rule
\* that matches.
EarliestCapture(rules, t, value, group) ==
    Matching(rules, t) # {} =>
        value = RuleMatch(rules, Earliest(Matching(rules, t)), t).g[group]

PlainFieldsEarliest ==
    /\ Extracted => EarliestCapture(CardRules, text, card, 1)
    /\ Extracted =>
            /\ EarliestCapture(CycleRules, text, cycle.start_date, 1)
            /\ EarliestCapture(CycleRules, text, cycle.end_date, 2)
    /\ Extracted => EarliestCapture(DueRules, text, due, 1)
    /\ Extracted => EarliestCapture(CountRules, text, txn.transaction_count, 1)

\* C10 as stated: in every operation, when two rules of a field match the
\* text, the value returned comes from the earlier-listed rule, never from the
\* later one.
C10_EarliestMatchingRuleWins ==
    /\ PlainFieldsEarliest
    /\ Extracted => EarliestAmount(BalanceRules, text, balance)
    /\ Extracted => EarliestAmount(ChargeRules, text, txn.total_charges)

\* C10 as amended: the value returned comes from the earliest-listed rule that
\* matches the text and, for the two amount fields, whose capture parses as a
\* number.
C10_EarliestUsableRuleWins ==
    /\ PlainFieldsEarliest
    /\ Extracted => EarliestParsedAmount(BalanceRules, text, balance)
    /\ Extracted => EarliestParsedAmount(ChargeRules, text, txn.total_charges)

\* Two due-date rules match and the match of the later-listed rule stands
\* first in the text.
C10_Witness ==
    /\ text = "Pay by 20/02/2024 Payment Due Date: 15/02/2024"
    /\ Extracted
    /\ Cardinality(Matching(DueRules, text)) >= 2
    /\ due = "15/02/2024"

\* The rules of an amount operation that match with a capture that does not
\* parse as a number.
Unparsed(rules, t) == Matching(rules, t) \ MatchingParsed(rules, t)

\* A result of an amount operation: the sentinel or "₹" and a number.
IsAmountResult(value) ==
    \/ value = Sentinel
    \/ /\ Len(value) >= 5
       /\ Char(value, 1) = "₹"
       /\ \A k \in 2..Len(value) : Char(value, k) \in Digit \cup {",", "."}

\* Every rule whose capture does not parse, and which the loop reaches, is
\* passed over: the result is that of the next rule after it that matches and
\* parses, the sentinel when there is none.
UnparsedPassedOver(rules, t, value) ==
    /\ IsAmountResult(value)
    /\ \A i \in Unparsed(rules, t) :
            (\A j \in MatchingParsed(rules, t) : j > i) =>
                LET later == { j \in MatchingParsed(rules, t) : j > i }
                IN  IF later = {} THEN value = Sentinel
                    ELSE value = AmountOf(rules, Earliest(later), t)

\* C11: in extract_total_balance and in the total-charges part of
\* extract_transaction_info a rule whose capture fails to parse as a number
\* counts as a non-match: the result is the value of the next rule that matches
\* and parses, or the sentinel, and never an exception.
C11_UnparsedCaptureIsNonMatch ==
    Extracted =>
        /\ UnparsedPassedOver(BalanceRules, text, balance)
        /\ UnparsedPassedOver(ChargeRules, text, txn.total_charges)

\* The balance rule matches with a capture of one comma, and a later rule
\* supplies the value.
C11_Witness ==
    /\ text = "Balance: , Rs. 5,000"
    /\ Extracted
    /\ 9 \in Unparsed(BalanceRules, text)
    /\ balance = "₹5,000.00"

RECURSIVE Pow10(_)
Pow10(n) == IF n = 0 THEN 1 ELSE 10 * Pow10(n - 1)

\* The form "₹" digits-and-commas "." two digits.
TwoDecimalForm(value) ==
    /\ Len(value) >= 5
    /\ Char(value, 1) = "₹"
    /\ Char(value, Len(value) - 2) = "."
    /\ AllDigits(SubSeq(value, Len(value) - 1, Len(value)))
    /\ AllDigits(Remove(SubSeq(value, 2, Len(value) - 3), ",", 1))
    /\ Char(value, 2) \in Digit
    /\ Char(value, Len(value) - 3) \in Digit

\* The number a string of that form writes, in hundredths.
ReadHundredths(value) ==
    LET whole == Remove(SubSeq(value, 2, Len(value) - 3), ",", 1)
    IN  100 * ToNat(whole, Len(whole))
            + ToNat(SubSeq(value, Len(value) - 1, Len(value)), 2)

\* The capture of the rule that supplies the balance: the earliest-listed rule
\* that matches with a capture that parses.
BalanceCapture(t) ==
    RuleMatch(BalanceRules, Earliest(MatchingParsed(BalanceRules, t)), t).g[1]

\* The digits of a capture, without its separators and its point.
CaptureDigits(capture) ==
    LET a == StripSeparators(capture) IN WholePart(a) \o FracPart(a)

\* The number of digits after the point of a capture.
CaptureDecimals(capture) == Len(FracPart(StripSeparators(capture)))

\* value minus the number written by the capture, in units of 1/100 of
\* 10^-decimals.
Difference(value, capture) ==
    LET d == CaptureDigits(capture)
    IN  ReadHundredths(value) * Pow10(CaptureDecimals(capture)) - 100 * ToNat(d, Len(d))

\* C12 as stated: every captured amount that parses is returned as the
\* canonical currency symbol and the same numeric value with exactly two
\* decimals, whatever currency marker stood before it.
C12_SameValueTwoDecimals ==
    (Extracted /\ MatchingParsed(BalanceRules, text) # {}) =>
        /\ TwoDecimalForm(balance)
        /\ Difference(balance, BalanceCapture(text)) = 0

\* C12 as amended: every captured amount that parses is returned as the
\* canonical currency symbol and the hundredth nearest to the captured value,
\* which is the captured value itself when it has at most two decimals.
C12_NearestHundredth ==
    (Extracted /\ MatchingParsed(BalanceRules, text) # {}) =>
        LET d == Difference(balance, BalanceCapture(text))
        IN  /\ TwoDecimalForm(balance)
            /\ 2 * d <= Pow10(CaptureDecimals(BalanceCapture(text)))
            /\ -2 * d <= Pow10(CaptureDecimals(BalanceCapture(text)))

\* The amount after a dollar sign, with a thousands separator.
C12_Witness ==
    /\ text = "Total Balance: $2,456.78"
    /\ Extracted
    /\ BalanceCapture(text) = "2,456.78"
    /\ balance = "₹2,456.78"

\* What the count rules alone make of a text.
CountAlone(t) ==
    IF Matching(CountRules, t) = {} THEN Sentinel
    ELSE RuleMatch(CountRules, Earliest(Matching(CountRules, t)), t).g[1]

\* What the charge rules alone make of a text.
ChargesAlone(t) ==
    IF MatchingParsed(ChargeRules, t) = {} THEN Sentinel
    ELSE AmountOf(ChargeRules, Earliest(MatchingParsed(ChargeRules, t)), t)

\* C13: the two parts of extract_transaction_info are independent: the count is
\* what the count rules alone give and the charges what the charge rules alone
\* give, whether or not the other part finds anything.
C13_SubExtractionsIndependent ==
    Extracted =>
        /\ txn.transaction_count = CountAlone(text)
        /\ txn.total_charges = ChargesAlone(text)

\* A count without charges: the count is returned next to the charges
\* sentinel.
C13_Witness ==
    /\ text = "Total Transactions: 10"
    /\ Extracted
    /\ txn = [transaction_count |-> "10", total_charges |-> Sentinel]

\* The other three combinations of found and not found.
C13_ChargesOnly ==
    /\ Extracted
    /\ txn.transaction_count = Sentinel
    /\ txn.total_charges # Sentinel

C13_BothFound ==
    /\ Extracted
    /\ txn.transaction_count # Sentinel
    /\ txn.total_charges # Sentinel

C13_NeitherFound ==
    /\ Extracted
    /\ txn = [transaction_count |-> Sentinel, total_charges |-> Sentinel]

\* The places in CardRules of the rule for a 16-digit number and of the rules
\* for a masked number or the word "ending" (the nine listed rules and the
\* rule for xxxx-xxxx-xxxx-1234).
SixteenDigitRule == Len(card_patterns) + 1
MaskingRules == (1..Len(card_patterns)) \cup {Len(card_patterns) + 2}

FourDigits(str) == Len(str) = 4 /\ AllDigits(str)

\* C14: extract_last_four_digits returns four digits or the sentinel; a text
\* whose only card reference is a 16-digit number in four groups gives the last
\* group; and the 16-digit rule is consulted only after every rule for a
\* masked number or "ending" failed to match, so that whenever such a rule
\* matches the result is the capture of one of them.
C14_SixteenDigitRuleLast ==
    Extracted =>
        LET matching == Matching(CardRules, text)
            masking  == matching \cap MaskingRules
        IN  /\ card = Sentinel \/ FourDigits(card)
            /\ (masking = {} /\ SixteenDigitRule \in matching) =>
                    card = RuleMatch(CardRules, SixteenDigitRule, text).g[1]
            /\ masking # {} =>
                    card \in { RuleMatch(CardRules, i, text).g[1] : i \in masking }

-----------------------------------------------------------------------------
(* Properties of the entry points *)

\* parse_statement has returned its response for the upload.
Answered == pc = "done" /\ response.parse_statement # Pending

\* parse_pdf has returned or raised.
PdfAnswered == pc = "done" /\ response.parse_pdf # PdfPending

\* debug_pdf_info has returned its response.
DebugAnswered == pc = "done" /\ response.debug_pdf_info # DebugPending

ResultKeys ==
    {"issuer", "card_last_four_digits", "billing_cycle", "payment_due_date",
     "total_balance", "transaction_info", "detected_issuer"}

DateOrSentinel(value) == value = Sentinel \/ IsDateToken(value)

\* The record of a parse: every entry is there, and holds a captured value of
\* its kind or the sentinel.
CompleteRecord(result) ==
    /\ ResultKeys \subseteq DOMAIN result
    /\ result.issuer \in { ParserIssuer[c] : c \in DOMAIN ParserIssuer }
    /\ result.card_last_four_digits = Sentinel \/ FourDigits(result.card_last_four_digits)
    /\ DOMAIN result.billing_cycle = {"start_date", "end_date"}
    /\ DateOrSentinel(result.billing_cycle.start_date)
    /\ DateOrSentinel(result.billing_cycle.end_date)
    /\ DateOrSentinel(result.payment_due_date)
    /\ IsAmountResult(result.total_balance)
    /\ DOMAIN result.transaction_info = {"transaction_count", "total_charges"}
    /\ \/ result.transaction_info.transaction_count = Sentinel
       \/ /\ AllDigits(result.transaction_info.transaction_count)
          /\ Len(result.transaction_info.transaction_count) >= 1
    /\ IsAmountResult(result.transaction_info.total_charges)

\* The text parse_pdf reads from the upload is classified by the Streamlit
\* copy of detect_issuer.
PdfClassifies(u) ==
    /\ Opens(u)
    /\ ~AnyPageRaises(u.pages)
    /\ ~Blank(PdfText(u.pages, 1))

\* C15: once the text is classified, the parse never fails for missing fields:
\* parser.parse returns a record with issuer, card_last_four_digits,
\* billing_cycle (start_date, end_date), payment_due_date, total_balance and
\* transaction_info (transaction_count, total_charges), each a captured value
\* or the sentinel, and nothing is raised.
C15_ParseReturnsCompleteRecord ==
    /\ (Answered /\ issuer \in Issuers) =>
            /\ response.parse_statement.status = 200
            /\ response.parse_statement.result # NoResult
            /\ CompleteRecord(response.parse_statement.result)
    /\ (PdfAnswered /\ PdfClassifies(upload)
            /\ st_detect_issuer(PdfText(upload.pages, 1)) \in Issuers) =>
            /\ response.parse_pdf.raised = None
            /\ response.parse_pdf.result # NoResult
            /\ CompleteRecord(response.parse_pdf.result)

\* A classified text that holds a card number and nothing else: the record
\* has the card number next to sentinels.
C15_Witness ==
    /\ Answered
    /\ text = "HDFC Bank XXXX 4532\n"
    /\ issuer = "hdfc"
    /\ response.parse_statement.status = 200
    /\ response.parse_statement.result.card_last_four_digits = "4532"
    /\ response.parse_statement.result.payment_due_date = Sentinel
    /\ response.parse_statement.result.total_balance = Sentinel

\* The elements of a sequence.
Range(seq) == { seq[i] : i \in 1..Len(seq) }

\* The display names a successful classification can produce.
ClassifiableNames == { DisplayName(tag) : tag \in Issuers }

\* C16: an upload whose text detect_issuer calls "unknown" is rejected, no
\* parser is invoked and no result produced, and the rejection lists the
\* supported issuers: exactly the nine display names a successful
\* classification can produce (parse_statement: status 400 with
\* supported_issuers; parse_pdf: an error that names SUPPORTED_BANKS).
C16_UnknownIssuerRejected ==
    /\ (Answered /\ issuer = "unknown") =>
            /\ response.parse_statement.status = 400
            /\ response.parse_statement.result = NoResult
            /\ Len(response.parse_statement.supported_issuers) = 9
            /\ Range(response.parse_statement.supported_issuers) = ClassifiableNames
    /\ (PdfAnswered /\ PdfClassifies(upload)
            /\ st_detect_issuer(PdfText(upload.pages, 1)) = "unknown") =>
            /\ response.parse_pdf.raised # None
            /\ response.parse_pdf.result = NoResult
            /\ Len(SUPPORTED_BANKS) = 9
            /\ Range(SUPPORTED_BANKS) = ClassifiableNames
            /\ \A name \in ClassifiableNames : Contains(response.parse_pdf.raised, name)

\* A text without issuer is rejected by parse_statement.
C16_Witness ==
    /\ Answered
    /\ text = "Receipt Rs. 12\n"
    /\ issuer = "unknown"
    /\ response.parse_statement.status = 400
    /\ response.parse_statement.supported_issuers # <<>>

\* The preconditions of parse_statement in the order in which they are
\* checked, by what is wrong with the upload; "none" when nothing is.
FirstFailure(u) ==
    IF Len(u.contents) = 0 THEN "empty"
    ELSE IF Len(u.contents) < 4 \/ SubSeq(u.contents, 1, 4) # "%PDF" THEN "signature"
    ELSE IF u.key # "" /\ ~Opens(u) /\ u.password = "" THEN "password required"
    ELSE IF u.key # "" /\ ~Opens(u) THEN "password incorrect"
    ELSE IF ~Opens(u) THEN "damaged"
    ELSE IF Len(u.pages) = 0 THEN "no pages"
    ELSE IF Blank(PdfText(u.pages, 1)) THEN "no text"
    ELSE "none"

\* C17: parse_statement reports each failed precondition as its own outcome,
\* in this order: an empty upload (400 "PDF file is empty"), a wrong file
\* signature (400), an encrypted document without password (401 "Password
\* required"), an encrypted document whose password does not open it (401
\* "Incorrect password"), no pages (400), no text (400); a failure to open
\* that is not about encryption is never reported as a password condition.
C17_DistinctPreconditionOutcomes ==
    Answered =>
        LET r == response.parse_statement
            failure == FirstFailure(upload)
        IN  /\ failure = "empty" =>
                    r.status = 400 /\ r.detail = "PDF file is empty"
            /\ failure = "signature" =>
                    r.status = 400 /\ Contains(r.detail, "Invalid PDF file format")
            /\ failure = "password required" =>
                    r.status = 401 /\ Contains(r.detail, "Password required")
            /\ failure = "password incorrect" =>
                    r.status = 401 /\ Contains(r.detail, "Incorrect password")
            /\ failure = "damaged" => r.status = 400 /\ ~r.requires_password
            /\ failure = "no pages" =>
                    r.status = 400 /\ Contains(r.detail, "PDF has no pages")
            /\ failure = "no text" =>
                    r.status = 400 /\ Contains(r.detail, "Could not extract text")
            /\ failure = "none" => r.detail = ""

\* C17, the part about the order of the checks that do not depend on the
\* wording of an exception: empty, signature, no pages, no text.
C17_OrderOfPlainChecks ==
    Answered =>
        LET r == response.parse_statement
            failure == FirstFailure(upload)
        IN  /\ failure = "empty" =>
                    r.status = 400 /\ r.detail = "PDF file is empty"
            /\ failure = "signature" =>
                    r.status = 400 /\ Contains(r.detail, "Invalid PDF file format")
            /\ failure = "no pages" =>
                    r.status = 400 /\ Contains(r.detail, "PDF has no pages")
            /\ failure = "no text" =>
                    r.status = 400 /\ Contains(r.detail, "Could not extract text")
            /\ failure = "none" => r.detail = ""

\* C18: wherever an entry point has run detect_issuer or an extract operation,
\* every precondition check has passed before: the document was opened and the
\* text decoded from it is not blank.
C18_ClassifiedTextNotBlank ==
    /\ (issuer # NotRun) => (Opens(upload) /\ ~Blank(text))
    /\ (DebugAnswered /\ response.debug_pdf_info.detected_issuer # NotRun) =>
            (Opens(upload) /\ response.debug_pdf_info.has_text)

\* C18 for parse_statement alone.
C18_ParseStatementTextNotBlank ==
    (issuer # NotRun) => (Opens(upload) /\ ~Blank(text) /\ Len(upload.pages) > 0)

\* parse_batch has returned.
BatchAnswered == pc = "done" /\ files = <<>>

\* The entries of one list that the files of a batch give, each file by
\* itself, in the order of the files.
RECURSIVE EntriesOf(_, _)
EntriesOf(batch, list) ==
    IF batch = <<>> THEN <<>>
    ELSE LET out == batch_entry(Head(batch))
         IN  (IF out.list = list THEN <<out.entry>> ELSE <<>>)
                \o EntriesOf(Tail(batch), list)

\* The number of entries of a list that bear a file name.
Named(list, filename) == Cardinality({ i \in 1..Len(list) : list[i].filename = filename })

\* C19: parse_batch isolates the failures of a document: an exception, an
\* empty text or an unknown issuer adds one entry for the file to errors and
\* the remaining files are still processed; after N files every file is in
\* exactly one of results and errors, successful + failed = N, and the entry of
\* a file depends neither on the other files nor on their order.
C19_BatchIsolatesFailures ==
    /\ Len(results) + Len(errors) = Len(upload) - Len(files)
    /\ BatchAnswered =>
            /\ response.successful + response.failed = Len(upload)
            /\ response.successful = Len(response.results)
            /\ response.failed = Len(response.errors)
            /\ response.results = EntriesOf(upload, "results")
            /\ response.errors = EntriesOf(upload, "errors")
            /\ \A f \in Range(upload) :
                    Named(response.results, f.filename) + Named(response.errors, f.filename)
                        = Cardinality({ i \in 1..Len(upload) : upload[i] = f })

\* A batch of a damaged file, a file of unknown issuer and a statement: two
\* errors, and the statement after them is parsed.
C19_Witness ==
    /\ BatchAnswered
    /\ Len(upload) = 3
    /\ upload[1].filename = "damaged.pdf"
    /\ upload[2].filename = "receipt.pdf"
    /\ upload[3].filename = "hdfc.pdf"
    /\ response.successful = 1
    /\ response.failed = 2
    /\ response.results[1].filename = "hdfc.pdf"
    /\ response.results[1].total_balance = "₹2,456.78"

\* C18 for parse_batch: a file whose text is classified has a text that is
\* not blank.
C18_BatchTextNotBlank ==
    \A i \in 1..Len(errors) :
        errors[i].error = "Unknown issuer" =>
            \A f \in Range(upload) :
                f.filename = errors[i].filename => ~Blank(BatchText(f.pages, 1))

\* The record a parse of a text returns when it runs alone, NoResult for a
\* text without issuer.
Alone(t) ==
    LET tag == detect_issuer(t).tag
    IN  IF tag = "unknown" THEN NoResult
        ELSE parse(Get(PARSERS, tag), t) @@ [detected_issuer |-> DisplayName(tag)]

\* C20: parses that run at the same time do not interfere: under every
\* interleaving of their steps each parse returns the record it returns when
\* it runs alone.
C20_ConcurrentParsesAgree ==
    \A p \in DOMAIN parses :
        parses[p].pc = "done" => parses[p].result = Alone(parses[p].pdf_text)

\* C20, the steps: a step of one parse leaves the frame of every other parse,
\* and everything outside the frames, as it was.
C20_StepsAreLocal ==
    [][\E p \in DOMAIN parses :
            /\ \A q \in DOMAIN parses \ {p} : parses'[q] = parses[q]
            /\ parses'[p].pdf_text = parses[p].pdf_text
            /\ concurrent_frame]_vars

\* Two parses of different texts, interleaved: the second has returned its
\* record while the first is still between two extractions.
C20_Witness ==
    /\ Len(parses) = MaxParses
    /\ parses[1].pdf_text = "HDFC Bank XXXX 4532"
    /\ parses[2].pdf_text = "Yes Bank Pay by 20/02/2024"
    /\ parses[1].pc = "due"
    /\ parses[2].pc = "done"
    /\ parses[2].result.payment_due_date = "20/02/2024"
    /\ parses[2].result.card_last_four_digits = "N/A"

LabelledRules(rules) ==
    IF rules = BalanceRules THEN 1..9
    ELSE IF rules = ChargeRules THEN 1..7
    ELSE IF rules = CountRules THEN 2..5
    ELSE {}

\* The capture of the first label-anchored rule of the list that matches.
LabelledCapture(rules, t) ==
    RuleMatch(rules, Earliest(Matching(rules, t) \cap LabelledRules(rules)), t).g[1]

\* C22: every rule list goes from label-anchored to generic: where a text is
\* matched by a label-anchored rule and by a more generic rule of the field,
\* the capture of the label-anchored rule is returned; "Total Transactions: 10"
\* wins over a bare "<n> transactions" elsewhere in the text.
C22_LabelledCountWins ==
    (Extracted /\ Matching(CountRules, text) \cap LabelledRules(CountRules) # {}) =>
        txn.transaction_count = LabelledCapture(CountRules, text)

\* C22 for the two lists of amounts: a label-anchored rule whose capture is
\* a number wins over the bare amounts.
C22_LabelledAmountWins ==
    \A field \in { <<BalanceRules, balance>>, <<ChargeRules, txn.total_charges>> } :
        LET labelled == MatchingParsed(field[1], text) \cap LabelledRules(field[1])
        IN  (Extracted /\ labelled # {}) =>
                field[2] = FormatAmount(StripSeparators(
                              RuleMatch(field[1], Earliest(labelled), text).g[1]))

\* A record without its "issuer" entry.
WithoutIssuer(record) == [k \in DOMAIN record \ {"issuer"} |-> record[k]]

\* C23: the nine issuer profiles differ in the label only: for every text
\* the records of the nine parse methods are equal in every field but
\* "issuer", and no field depends on the issuer or on the value of another
\* field: each is what its extract operation gives for the text by itself.
C23_ProfilesDifferInLabelOnly ==
    pc = "profiles" =>
        /\ \A p, q \in DOMAIN parses : WithoutIssuer(parses[p]) = WithoutIssuer(parses[q])
        /\ \A p \in DOMAIN parses :
                /\ parses[p].issuer = ParserIssuer[p]
                /\ parses[p].card_last_four_digits = extract_last_four_digits(text)
                /\ parses[p].billing_cycle = extract_billing_cycle(text)
                /\ parses[p].payment_due_date = extract_payment_due_date(text)
                /\ parses[p].total_balance = extract_total_balance(text)
                /\ parses[p].transaction_info = extract_transaction_info(text)

\* The nine classes have parsed a text with a card number and a due date.
C23_Witness ==
    /\ pc = "profiles"
    /\ DOMAIN parses = ParserClasses
    /\ parses["HDFCParser"].issuer = "HDFC Bank"
    /\ parses["SBIParser"].issuer = "State Bank of India"
    /\ parses["SBIParser"].card_last_four_digits = "4532"
    /\ parses["OneCardParser"].payment_due_date = "20/02/2024"

\* calculate_confidence_scores has run on the record.
Scored == pc \in {"analytics", "done"} /\ "confidence_scores" \in DOMAIN response

\* generate_analytics has run on the record.
Analysed == pc = "done" /\ "analytics" \in DOMAIN response

\* The weight of a group in hundredths when it is found, 0 when it is not.
Weighted(found, weight) == IF found THEN weight ELSE 0

\* C24: calculate_confidence_scores gives each group its fixed weight when
\* the group is not the sentinel of the extract operations and 0 otherwise:
\* card 0.95, billing cycle 0.90 when both dates are found, due date 0.90,
\* balance 0.95, transaction info 0.85 when the count or the charges is found;
\* overall is the sum of the five scores divided by five.
C24_FixedWeights ==
    Scored =>
        LET scores == response.confidence_scores
        IN  /\ DOMAIN scores = {"card_last_four_digits", "billing_cycle", "payment_due_date",
                                "total_balance", "transaction_info", "overall"}
            /\ scores.card_last_four_digits
                    = Weighted(response.card_last_four_digits # Sentinel, 95)
            /\ scores.billing_cycle
                    = Weighted(response.billing_cycle.start_date # Sentinel
                                /\ response.billing_cycle.end_date # Sentinel, 90)
            /\ scores.payment_due_date = Weighted(response.payment_due_date # Sentinel, 90)
            /\ scores.total_balance = Weighted(response.total_balance # Sentinel, 95)
            /\ scores.transaction_info
                    = Weighted(response.transaction_info.transaction_count # Sentinel
                                \/ response.transaction_info.total_charges # Sentinel, 85)
            /\ 5 * scores.overall
                    = scores.card_last_four_digits + scores.billing_cycle
                        + scores.payment_due_date + scores.total_balance
                        + scores.transaction_info

\* A record with the card number and the count found and nothing else:
\* 0.95 and 0.85 out of five groups.
C24_Witness ==
    /\ Scored
    /\ response.card_last_four_digits = "4532"
    /\ response.billing_cycle.start_date = Sentinel
    /\ response.payment_due_date = Sentinel
    /\ response.total_balance = Sentinel
    /\ response.transaction_info.transaction_count = "31"
    /\ response.transaction_info.total_charges = Sentinel
    /\ response.confidence_scores.transaction_info = 85
    /\ response.confidence_scores.overall = 36

\* The fields of a record that were found.
FoundFields(result) ==
    { f \in {"card_last_four_digits", "payment_due_date", "total_balance"} :
            result[f] # Sentinel }
    \cup { f \in {"start_date", "end_date"} : result.billing_cycle[f] # Sentinel }
    \cup { f \in {"transaction_count", "total_charges"} :
            result.transaction_info[f] # Sentinel }

\* C25: the overall confidence reflects the gaps: it lies between 0 and 0.91,
\* it is 0 exactly when every group is the sentinel, no record with more
\* fields found has a lower one, and every record has one.
C25_OverallReflectsGaps ==
    Scored =>
        LET overall == response.confidence_scores.overall
        IN  /\ 0 <= overall /\ overall <= 91
            /\ overall = 0 <=> FoundFields(response) = {}
            /\ \A more \in ScoreResults :
                    FoundFields(response) \subseteq FoundFields(more)
                        => overall <= calculate_confidence_scores(more).overall

\* Every field missed but the card number: a low score, and a score.
C25_Witness ==
    /\ Scored
    /\ FoundFields(response) = {"card_last_four_digits"}
    /\ response.confidence_scores.overall = 19

\* The types of the recommendations, in their order.
RecommendationTypes ==
    [i \in 1..Len(response.analytics.payment_recommendations) |->
        response.analytics.payment_recommendations[i].type]

\* The amount a balance of the record writes, in hundredths; -1 for the
\* sentinel.
BalanceOf(result) ==
    IF result.total_balance = Sentinel THEN -1 ELSE ReadHundredths(result.total_balance)

CountOf(result) ==
    IF result.transaction_info.transaction_count = Sentinel THEN -1
    ELSE ToNat(result.transaction_info.transaction_count,
               Len(result.transaction_info.transaction_count))

\* C26: the recommendations come from the balance and the count only: a
\* balance above 5000 gives high_balance, one above 2000 and at most 5000
\* gives moderate_balance, never both; a count above 30 gives
\* high_transaction_count, also when the balance was not found; at most two
\* entries.
C26_RecommendationsFromBalanceAndCount ==
    Analysed =>
        LET types == Range(RecommendationTypes)
        IN  /\ "high_balance" \in types <=> BalanceOf(response) > 500000
            /\ "moderate_balance" \in types
                    <=> (BalanceOf(response) > 200000 /\ BalanceOf(response) <= 500000)
            /\ "high_transaction_count" \in types <=> CountOf(response) > 30
            /\ Len(RecommendationTypes) <= 2

\* C26 for the records whose balance was found.
C26_WithBalanceFound ==
    (Analysed /\ response.total_balance # Sentinel) =>
        LET types == Range(RecommendationTypes)
        IN  /\ "high_balance" \in types <=> BalanceOf(response) > 500000
            /\ "moderate_balance" \in types
                    <=> (BalanceOf(response) > 200000 /\ BalanceOf(response) <= 500000)
            /\ "high_transaction_count" \in types <=> CountOf(response) > 30
            /\ Len(RecommendationTypes) <= 2

\* C26, the records whose balance was not found: no recommendation at all.
C26_NothingWithoutBalance ==
    (Analysed /\ response.total_balance = Sentinel) =>
        response.analytics.payment_recommendations = <<>>

\* C27: every tag but "unknown" that detect_issuer returns is a key of
\* PARSERS and of issuer_display_names, and the parser under it labels its
\* record with that display name: issuer = detected_issuer in every result,
\* and "Parser not found" cannot happen.
C27_TagsHaveParsers ==
    (Classified /\ issuer # "unknown") =>
        /\ issuer \in DOMAIN PARSERS
        /\ Get(PARSERS, issuer) # None
        /\ issuer \in DOMAIN issuer_display_names
        /\ ParserIssuer[PARSERS[issuer]] = issuer_display_names[issuer]
        /\ ParserIssuer[PARSERS[issuer]] = DisplayName(issuer)

\* A text classified as "yes bank" by the fallback chain.
C27_Witness ==
    /\ Classified
    /\ issuer = "yes bank"
    /\ pass = 2
    /\ ParserIssuer[PARSERS[issuer]] = "Yes Bank"

\* C27 in the answers of parse_statement and parse_pdf: the two labels of
\* a result agree, and no answer says "Parser not found".
C27_ResultIssuerIsDetected ==
    /\ (Answered /\ response.parse_statement.result # NoResult) =>
            response.parse_statement.result.issuer
                = response.parse_statement.result.detected_issuer
    /\ Answered => ~Contains(response.parse_statement.detail, "Parser not found")
    /\ (PdfAnswered /\ response.parse_pdf.result # NoResult) =>
            response.parse_pdf.result.issuer = response.parse_pdf.result.detected_issuer
    /\ PdfAnswered => ~Contains(response.parse_pdf.raised, "Parser not found")

\* Both copies of detect_issuer have classified the text.
BothClassified == issuer # NotRun /\ st_issuer # NotRun

\* C28: the Streamlit copy of detect_issuer is the backend classifier
\* restricted to its first chain: where it returns a tag the backend returns
\* the same tag, and the copies differ only where the fallback chain decides
\* the backend result; there the Streamlit copy returns "unknown".
C28_StreamlitIsPassOne ==
    BothClassified =>
        /\ st_issuer # "unknown" => issuer = st_issuer
        /\ st_issuer # issuer => pass = 2
        /\ pass = 2 => (st_issuer = "unknown" /\ issuer # "unknown")

\* A text that only the fallback chain of the backend classifies.
C28_Witness ==
    /\ BothClassified
    /\ pass = 2
    /\ issuer = "sbi"
    /\ st_issuer = "unknown"

\* The two copies agree on a text the first chain classifies.
C28_Agree ==
    /\ BothClassified
    /\ pass = 1
    /\ issuer = "kotak"
    /\ st_issuer = "kotak"

\* C29: the fallback chain returns dcb, hdfc, sbi or yes bank only: its rules
\* for icici, axis, kotak, indusind and onecard cannot fire, the first chain
\* matching the same bare keywords, and its hdfc rule fires only on texts
\* with the phrase "housing development finance".
C29_FallbackTags ==
    (Classified /\ pass = 2) =>
        /\ issuer \in {"dcb", "hdfc", "sbi", "yes bank"}
        /\ issuer = "hdfc" => Contains(Lower(text), "housing development finance")
        /\ \A tag \in {"icici", "axis", "kotak", "indusind", "onecard"} :
                ~Pass2Pred(tag, Lower(text))

\* The hdfc rule of the fallback chain fires.
C29_Witness ==
    /\ Classified
    /\ pass = 2
    /\ issuer = "hdfc"
    /\ Contains(Lower(text), "housing development finance")

\* The three other rules of the fallback chain that can fire, firing.
C29_FallbackDcb == Classified /\ pass = 2 /\ issuer = "dcb"
C29_FallbackSbi == Classified /\ pass = 2 /\ issuer = "sbi"
C29_FallbackYesBank == Classified /\ pass = 2 /\ issuer = "yes bank"

\* C30: when parse_statement has answered, a document that was opened has
\* been closed, whether the request completed, was rejected for having no
\* pages, skipped a page whose extraction raised, or failed on another
\* exception after opening; a document that failed to open was never closed.
C30_OpenedIsClosed ==
    Answered =>
        /\ pdf_doc.opened => pdf_doc.closes >= 1
        /\ pdf_doc.opened <=> (Len(upload.contents) >= 4 /\ Opens(upload))
        /\ ~pdf_doc.opened => pdf_doc.closes = 0

\* The document is closed as soon as its pages have been read: no step after
\* the loop runs with the document open.
C30_ClosedAfterTheLoop ==
    pc \in {"text", "detect", "parse"} =>
        (pdf_doc.opened /\ pdf_doc.closes = 1)

\* A document without pages was opened, rejected and closed.
C30_Witness ==
    /\ Answered
    /\ pdf_doc.opened
    /\ pdf_doc.closes = 1
    /\ upload.pages = <<>>
    /\ upload.pages_raised = NoError
    /\ response.parse_statement.detail = "PDF has no pages or cannot be read."

\* A page was skipped, the pages after it were read, the document closed.
C30_PageSkipped ==
    /\ Answered
    /\ Len(upload.pages) = 2
    /\ upload.pages[1] = PageRaises
    /\ response.parse_statement.result # NoResult
    /\ pdf_doc.closes = 1

\* pdf_doc.pages raised after opening: the handler closed the document.
C30_ClosedByHandler ==
    /\ Answered
    /\ upload.pages_raised # NoError
    /\ pdf_doc.opened
    /\ pdf_doc.closes = 1
    /\ response.parse_statement.status = 400

\* The open failed: nothing to close.
C30_NeverOpened ==
    /\ Answered
    /\ Len(upload.contents) >= 4
    /\ ~Opens(upload)
    /\ pdf_doc = NoDocument

=============================================================================
